---- MODULE Spec2Model ----
(***************************************************************************)
(* Capture-and-recognition engine of Evertale-Bot.                         *)
(*                                                                         *)
(*   core/image_analyzer.py    find_references, compare_images,            *)
(*                             get_first_location                          *)
(*   core/image_recognition.py ImageRecognition.find_template              *)
(*   core/game_actions.py      click_image / find_and_click_any (the part  *)
(*                             of one attempt from the batch search to the *)
(*                             tap command)                                *)
(*                                                                         *)
(* Pixels are abstracted by the correlation surface they produce: a        *)
(* template carries, for every alignment of the template inside the frame, *)
(* the score cv2.matchTemplate computes there, quantised to 0..MaxScore.   *)
(* A score array is indexed numpy-style, <<row, col>>: row is the y of the *)
(* alignment's top-left corner and col is its x.  Python's 0-based list    *)
(* positions are 1-based sequence positions here.                          *)
(***************************************************************************)
EXTENDS Integers, Sequences, FiniteSets, TLC

(* ------------------------------ bounds --------------------------------- *)
FrameW == 2
FrameH == 2
MaxTemplates == 2
MaxScore == 2

(* The captured frame (screenshot_np): only its shape matters here. *)
Frame == [w |-> FrameW, h |-> FrameH]

Tolerances == 1..MaxScore

(* Python's None, and a returned [a, b] list. *)
None == <<>>

(* ------------------------- templates on disk --------------------------- *)
(* cv2.imread(path): None when the file is missing or undecodable,         *)
(* otherwise an image of shape (h, w).                                     *)
NoImage == [loaded |-> FALSE, w |-> 0, h |-> 0, res |-> <<>>]

(* Template shapes: fits inside the frame, fills it, wider than the frame  *)
(* but not taller, larger in both dimensions.                              *)
TemplateShapes ==
    { <<1, 1>>, <<FrameW, FrameH>>, <<FrameW + 1, 1>>, <<FrameW + 1, FrameH + 1>> }

(* cv2.matchTemplate without a mask (templmatch.cpp): when the template is *)
(* larger than the image in some dimension the two are swapped, which is   *)
(* asserted to be possible (the image must then be no larger than the      *)
(* template in both dimensions); otherwise cv2.error is raised.            *)
NeedSwap(img, w, h) == img.h < h \/ img.w < w

MatchTemplateRaises(img, w, h) ==
    NeedSwap(img, w, h) /\ ~(img.h <= h /\ img.w <= w)

Abs(n) == IF n < 0 THEN -n ELSE n

(* Index set <<row, col>> of the result array of matchTemplate. *)
ResultIndex(img, w, h) ==
    IF MatchTemplateRaises(img, w, h)
    THEN {}
    ELSE (0..Abs(img.h - h)) \X (0..Abs(img.w - w))

(* Correlation surfaces with at most one alignment above zero. *)
SinglePeakMaps(idx) ==
    { [p \in idx |-> 0] } \cup
    { [p \in idx |-> IF p = q THEN MaxScore ELSE 0] : q \in idx }

(* Correlation surfaces with at most two alignments above zero: none, one  *)
(* peak of any height, or a peak of MaxScore and a second of any height.   *)
PeakMaps(idx) ==
    { [p \in idx |-> 0] } \cup
    { [p \in idx |-> IF p = q THEN v ELSE 0] : q \in idx, v \in 1..MaxScore } \cup
    { [p \in idx |-> IF p = q THEN MaxScore ELSE IF p = r THEN v ELSE 0] :
        q \in idx, r \in idx, v \in 1..MaxScore }

BatchTemplates ==
    { NoImage } \cup
    UNION { { [loaded |-> TRUE, w |-> s[1], h |-> s[2], res |-> m] :
                m \in SinglePeakMaps(ResultIndex(Frame, s[1], s[2])) } :
            s \in TemplateShapes }

CompareTemplates ==
    { NoImage } \cup
    UNION { { [loaded |-> TRUE, w |-> s[1], h |-> s[2], res |-> m] :
                m \in PeakMaps(ResultIndex(Frame, s[1], s[2])) } :
            s \in TemplateShapes }

(* ------------------------------ state ---------------------------------- *)
VARIABLES
    caller,          \* "click_image" or "find_and_click_any"
    templates,       \* reference_images: what cv2.imread gave for template_paths
    tolerance,       \* the confidence passed as tolerance
    pc,              \* position of the calling thread
    worker,          \* worker[i]: "idle", "running" or "finished" (the future of template i)
    outcome,         \* outcome[i]: what the future of template i holds once finished
    queue,           \* futures as_completed will yield next, in that order
    locations,       \* the list the comprehension of find_references has built
    found_location,  \* get_first_location(locations) in the caller
    tap,             \* coordinates of the "input tap" command, <<>> before it
    ft_pc,           \* find_template: "idle", "call" or "done"
    ft_args,         \* find_template: screenshot_source, template_path, threshold, roi
    ft_result,       \* find_template: what the call returned or raised
    px_pc,           \* pixel predicates: "idle", "call" or "done"
    px_args,         \* pixel predicates: the call's arguments and the frame
    px_result,       \* pixel predicates: result, and the coordinates examined
    captures,        \* number of ScreenCapture.take_screenshot calls made
    fn_pc,           \* coordinate helpers: "idle", "call" or "done"
    fn_args,         \* coordinate helpers: the function called and its arguments
    fn_result,       \* coordinate helpers: the list returned
    shared_frame,    \* the pixels held by the frame array the calls are given
    main_pc,         \* main and EvertaleLauncher.run: the statement reached
    game_launched,   \* what launcher.run() returned to main, "none" before
    main_log,        \* steps called with their results, input events, log marks
    ck_pc,           \* click_image: the statement reached
    ck_args,         \* click_image: max_attempts
    ck_attempt,      \* click_image: the loop variable attempt, 0 before the loop
    ck_log,          \* click_image: captures, searches and tap commands so far
    ck_result,       \* click_image: the value returned, "none" before
    wt_pc,           \* wait_for_checkpoint / wait_for_any_checkpoint: the statement reached
    wt_args,         \* ... which of the two, timeout, check_interval, number of templates
    wt_elapsed,      \* ... time.time() - start_time
    wt_log,          \* ... loop tests, captures, searches and sleeps so far
    wt_result,       \* ... "True", "False", or "none" before the return
    ts_pc,           \* take_screenshot: the statement reached
    ts_args,         \* take_screenshot: save_to_disk
    ts_final_save_path,  \* take_screenshot: the local final_save_path
    ts_log,          \* take_screenshot: commands and file operations so far
    ts_result,       \* take_screenshot: the pair returned, both "unset" before
    gm_pc,           \* getting_main_menue.run: the statement reached
    gm_args,         \* getting_main_menue.run: the timeout
    gm_elapsed,      \* getting_main_menue.run: time.time() - start_overall_time
    gm_cp,           \* getting_main_menue.run: position of the for loop in checkpoints
    gm_taps,         \* getting_main_menue.run: taps made by the handler running
    gm_log,          \* getting_main_menue.run: what the current iteration of the
                     \* main loop has done: <<who, operation, checkpoint, result>>
    gm_result,       \* getting_main_menue.run: "completed" (line 121), "timed_out"
                     \* (line 129), "none" before
    le_pc,           \* launch_evertale: the statement reached
    le_args,         \* launch_evertale: self.launch_timeout
    le_activities,   \* launch_evertale: len(activities), 0 for None
    le_activity,     \* launch_evertale: position of the for loop in activities
    le_poll,         \* launch_evertale: the i of the polling loop running
    le_log,          \* launch_evertale: commands and queries so far, with the
                     \* is_evertale_running calls made after each
    le_result,       \* launch_evertale: "True", "False", or "none"
    wb_pc,           \* wait_for_boot: the statement reached
    wb_args,         \* wait_for_boot: self.boot_timeout, self.check_interval
    wb_elapsed,      \* wait_for_boot: time.time() - start_time
    wb_adb_connected,  \* wait_for_boot: the local adb_connected
    wb_log,          \* wait_for_boot: queries and calls so far
    wb_result,       \* wait_for_boot: "True", "False", or "none"
    sm_pc,           \* start_memu: the statement reached
    sm_args,         \* start_memu: which executables exist, the MEmu processes alive
    sm_killed,       \* start_memu: the processes proc.kill() was called on
    sm_log,          \* start_memu: calls and commands so far
    sm_result,       \* start_memu: "True", "False", or "none"
    ln_pc,           \* get_line_coordinates, statement by statement: "idle",
                     \* "while" or "returned"
    ln_args,         \* ... x_1, y_1, x_2, y_2 as passed
    ln_x_1,          \* ... the local x_1
    ln_y_1,          \* ... the local y_1
    ln_error,        \* ... the local error
    ln_coordinates   \* ... the list coordinates

batchvars == <<caller, templates, tolerance, pc, worker, outcome, queue, locations,
               found_location, tap>>

ftvars == <<ft_pc, ft_args, ft_result>>

pxvars == <<px_pc, px_args, px_result, captures>>

fnvars == <<fn_pc, fn_args, fn_result>>

mainvars == <<main_pc, game_launched, main_log>>

clickvars == <<ck_pc, ck_args, ck_attempt, ck_log, ck_result>>

waitvars == <<wt_pc, wt_args, wt_elapsed, wt_log, wt_result>>

shotvars == <<ts_pc, ts_args, ts_final_save_path, ts_log, ts_result>>

menuvars == <<gm_pc, gm_args, gm_elapsed, gm_cp, gm_taps, gm_log, gm_result>>

launchvars == <<le_pc, le_args, le_activities, le_activity, le_poll, le_log, le_result>>

bootvars == <<wb_pc, wb_args, wb_elapsed, wb_adb_connected, wb_log, wb_result>>

memuvars == <<sm_pc, sm_args, sm_killed, sm_log, sm_result>>

linevars == <<ln_pc, ln_args, ln_x_1, ln_y_1, ln_error, ln_coordinates>>

procvars == <<waitvars, shotvars, menuvars, launchvars, bootvars, memuvars, linevars>>

ctlvars == <<mainvars, clickvars, procvars>>

latervars == <<fnvars, shared_frame, ctlvars>>

notmain == <<batchvars, ftvars, pxvars, fnvars, shared_frame, clickvars, procvars>>

notclick == <<batchvars, ftvars, pxvars, fnvars, shared_frame, mainvars, procvars>>

enginevars == <<batchvars, ftvars, pxvars, fnvars, shared_frame, mainvars, clickvars>>

notwait == <<enginevars, shotvars, menuvars, launchvars, bootvars, memuvars, linevars>>

notshot == <<enginevars, waitvars, menuvars, launchvars, bootvars, memuvars, linevars>>

notmenu == <<enginevars, waitvars, shotvars, launchvars, bootvars, memuvars, linevars>>

notlaunch == <<enginevars, waitvars, shotvars, menuvars, bootvars, memuvars, linevars>>

notboot == <<enginevars, waitvars, shotvars, menuvars, launchvars, memuvars, linevars>>

notmemu == <<enginevars, waitvars, shotvars, menuvars, launchvars, bootvars, linevars>>

notline == <<enginevars, waitvars, shotvars, menuvars, launchvars, bootvars, memuvars>>

vars == <<batchvars, ftvars, pxvars, latervars>>

N == Len(templates)

(* ----------------------------- compare_images -------------------------- *)
(* What a frame array holds after a call has used it: cv2.cvtColor and    *)
(* cv2.matchTemplate write to arrays of their own, a slice is a view that  *)
(* is only read, and the predicates index the array without storing.       *)
(* AfterConvertInPlace is a conversion that stores its result in the       *)
(* array it reads.                                                         *)
AfterConvertInPlace(array) ==
    [c \in DOMAIN array |-> <<array[c][3], array[c][2], array[c][1]>>]

AfterReads(array) == array

Returned(v) == [raised |-> FALSE, value |-> v]
Raised == [raised |-> TRUE, value |-> None]

(* np.where(res >= threshold): the <<row, col>> indices that qualify. *)
NpWhere(res, threshold) == { p \in DOMAIN res : res[p] >= threshold }

(* compare_images returns [loc[0][0], loc[1][0]]: loc[0] holds the row     *)
(* indices and loc[1] the column indices.                                  *)
compare_images(image, template, threshold) ==
    IF ~template.loaded
    THEN Raised        \* cv2.cvtColor(None, ...) raises cv2.error
    ELSE IF MatchTemplateRaises(image, template.w, template.h)
    THEN Raised        \* cv2.matchTemplate raises cv2.error
    ELSE LET loc == NpWhere(template.res, threshold)
         IN  IF Cardinality(loc) # 1
             THEN Returned(None)
             ELSE LET p == CHOOSE q \in loc : TRUE
                  IN  Returned(<<p[1], p[2]>>)

(* ---------------------------- get_first_location ----------------------- *)
RECURSIVE FirstNotNone(_)
FirstNotNone(locs) ==
    IF locs = <<>> THEN None
    ELSE IF Head(locs) # None THEN Head(locs)
    ELSE FirstNotNone(Tail(locs))

get_first_location_slot0(locs, flip) ==
    IF locs = <<>> THEN None ELSE Head(locs)

get_first_location(locs, flip) ==
    LET location == FirstNotNone(locs)
    IN  IF flip /\ location # None
        THEN <<location[2], location[1]>>
        ELSE location

(* ------------------------------ find_references ------------------------ *)
(* Orders in which a set of already finished futures can be yielded. *)
Perms(S) ==
    { q \in [1..Cardinality(S) -> S] :
        \A i, j \in 1..Cardinality(S) : i # j => q[i] # q[j] }

Finished == { i \in 1..N : worker[i] = "finished" }

(* executor.submit(compare_images, image, template, tolerance) for the     *)
(* next template of the list; after the last one the comprehension is      *)
(* complete and as_completed(futures) is called.                           *)
Submit ==
    /\ pc = "submit"
    /\ \E i \in 1..N :
        /\ worker[i] = "idle"
        /\ \A j \in 1..(i - 1) : worker[j] # "idle"
        /\ worker' = [worker EXCEPT ![i] = "running"]
        /\ pc' = IF i = N THEN "as_completed" ELSE "submit"
    /\ UNCHANGED <<caller, templates, tolerance, outcome, queue, locations,
                   found_location, tap>>
    /\ UNCHANGED <<ftvars, pxvars, latervars>>

(* A pool thread finishes compare_images for template i and sets the       *)
(* future; a future that finishes while as_completed is waiting is         *)
(* appended to the waiter's finished_futures.                              *)
WorkerFinish(i) ==
    /\ worker[i] = "running"
    /\ worker' = [worker EXCEPT ![i] = "finished"]
    /\ outcome' = [outcome EXCEPT ![i] = compare_images(Frame, templates[i], tolerance)]
    /\ queue' = IF pc = "collect" THEN Append(queue, i) ELSE queue
    /\ shared_frame' = AfterReads(shared_frame)
    /\ UNCHANGED <<caller, templates, tolerance, pc, locations, found_location, tap>>
    /\ UNCHANGED <<ftvars, pxvars, fnvars, ctlvars>>

(* as_completed(futures) starts: the futures already finished are yielded  *)
(* first, in the iteration order of a set.                                 *)
AsCompleted ==
    /\ pc = "as_completed"
    /\ \E q \in Perms(Finished) : queue' = q
    /\ pc' = "collect"
    /\ UNCHANGED <<caller, templates, tolerance, worker, outcome, locations,
                   found_location, tap>>
    /\ UNCHANGED <<ftvars, pxvars, latervars>>

(* One step of [future.result() for future in as_completed(futures)]:      *)
(* result() returns the worker's value or re-raises its exception, which   *)
(* leaves the comprehension and enters the with-block's exit.              *)
Collect ==
    /\ pc = "collect"
    /\ queue # <<>>
    /\ LET f == Head(queue)
       IN  /\ queue' = Tail(queue)
           /\ IF outcome[f].raised
              THEN /\ pc' = "shutdown"
                   /\ locations' = <<>>
              ELSE /\ pc' = pc
                   /\ locations' = Append(locations, outcome[f].value)
    /\ UNCHANGED <<caller, templates, tolerance, worker, outcome, found_location, tap>>
    /\ UNCHANGED <<ftvars, pxvars, latervars>>

(* as_completed is exhausted once it has yielded every future. *)
ListCompleteFirstOnly == Len(locations) >= 1

ListComplete == Len(locations) = N

(* ThreadPoolExecutor.__exit__ is shutdown(wait=True): joins every worker. *)
ExecutorShutdown == \A i \in 1..N : worker[i] = "finished"

(* return [...] : the list is handed to the caller. *)
Return ==
    /\ pc = "collect"
    /\ ListComplete
    /\ ExecutorShutdown
    /\ pc' = "returned"
    /\ UNCHANGED <<caller, templates, tolerance, worker, outcome, queue, locations,
                   found_location, tap>>
    /\ UNCHANGED <<ftvars, pxvars, latervars>>

(* The worker's exception leaves find_references after the pool is joined; *)
(* neither click_image nor find_and_click_any catches it.                  *)
Propagate ==
    /\ pc = "shutdown"
    /\ ExecutorShutdown
    /\ pc' = "raised"
    /\ UNCHANGED <<caller, templates, tolerance, worker, outcome, queue, locations,
                   found_location, tap>>
    /\ UNCHANGED <<ftvars, pxvars, latervars>>

(* ------------------------ the caller, game_actions.py ------------------ *)
(* found_location = get_first_location(locations) *)
GetFirstLocation ==
    /\ pc = "returned"
    /\ found_location' = get_first_location(locations, FALSE)
    /\ pc' = "checked"
    /\ UNCHANGED <<caller, templates, tolerance, worker, outcome, queue, locations, tap>>
    /\ UNCHANGED <<ftvars, pxvars, latervars>>

(* if found_location: center_x, center_y = found_location[0],             *)
(* found_location[1]; adb shell input tap center_x center_y                *)
TapCommand ==
    /\ pc = "checked"
    /\ IF found_location # None
       THEN /\ tap' = <<found_location[1], found_location[2]>>
            /\ pc' = "tapped"
       ELSE /\ tap' = tap
            /\ pc' = "not_found"
    /\ UNCHANGED <<caller, templates, tolerance, worker, outcome, queue, locations,
                   found_location>>
    /\ UNCHANGED <<ftvars, pxvars, latervars>>

(* ------------------- ImageRecognition.find_template -------------------- *)
(* The template file at template_path: missing, undecodable, or an image   *)
(* with, for every alignment <<row, col>> of the template inside the whole *)
(* frame, its masked correlation score.  The score of an alignment depends *)
(* only on the pixels under the template, so matching inside a crop of the *)
(* frame yields the same scores, shifted by the crop's origin.             *)
FrameIndex(img, w, h) ==
    IF w > img.w \/ h > img.h THEN {} ELSE (0..(img.h - h)) \X (0..(img.w - w))

TemplateFiles ==
    { [exists |-> FALSE, decodable |-> FALSE, w |-> 0, h |-> 0, score |-> <<>>],
      [exists |-> TRUE, decodable |-> FALSE, w |-> 0, h |-> 0, score |-> <<>>] } \cup
    UNION { { [exists |-> TRUE, decodable |-> TRUE, w |-> s[1], h |-> s[2], score |-> m] :
                m \in PeakMaps(FrameIndex(Frame, s[1], s[2])) } :
            s \in TemplateShapes }

(* screenshot_source: a path (missing, undecodable or an image), an array, *)
(* or a value of another type.                                             *)
ScreenshotSources == {"path_missing", "path_unreadable", "path", "ndarray", "other"}

(* roi: None, or (x, y, w, h) with a non-negative size. *)
RoiOrigins == -1..1

Rois ==
    { None } \cup
    (RoiOrigins \X RoiOrigins \X (0..(FrameW + 1)) \X (0..(FrameH + 1)))

(* Line 63: the ROI must lie inside screenshot_color. *)
RoiOutOfBoundsLowerOnly(roi, img) == roi[1] < 0 \/ roi[2] < 0

RoiOutOfBounds(roi, img) ==
    roi[1] < 0 \/ roi[2] < 0 \/ roi[1] + roi[3] > img.w \/ roi[2] + roi[4] > img.h

Least(a, b) == IF a < b THEN a ELSE b

(* Length of the numpy slice [start : start + len] of an axis of n         *)
(* elements, for start >= 0 and len >= 0: the stop is clamped to n.        *)
SliceLen(start, len, n) ==
    Least(n, start + len) - Least(n, start)

(* screenshot_color[y:y+h, x:x+w], or the whole frame without a ROI. *)
SearchRegion(roi, img) ==
    IF roi = None
    THEN [x |-> 0, y |-> 0, w |-> img.w, h |-> img.h]
    ELSE [x |-> roi[1], y |-> roi[2],
          w |-> SliceLen(roi[1], roi[3], img.w),
          h |-> SliceLen(roi[2], roi[4], img.h)]

(* cv2.matchTemplate(search_region_gray, template_gray, ..., mask=mask). *)
MatchInRegion(region, template) ==
    [p \in (0..(region.h - template.h)) \X (0..(region.w - template.w)) |->
        template.score[<<region.y + p[1], region.x + p[2]>>]]

(* cv2.minMaxLoc: the maximum and the first location, in row-major order,  *)
(* that holds it.                                                          *)
MaxVal(result) ==
    CHOOSE v \in 0..MaxScore :
        /\ \E p \in DOMAIN result : result[p] = v
        /\ \A p \in DOMAIN result : result[p] <= v

MaxLocLast(result) ==
    CHOOSE p \in DOMAIN result :
        /\ result[p] = MaxVal(result)
        /\ \A q \in DOMAIN result :
             result[q] = MaxVal(result) =>
                (q[1] < p[1] \/ (q[1] = p[1] /\ q[2] <= p[2]))

MaxLoc(result) ==
    CHOOSE p \in DOMAIN result :
        /\ result[p] = MaxVal(result)
        /\ \A q \in DOMAIN result :
             result[q] = MaxVal(result) =>
                (p[1] < q[1] \/ (p[1] = q[1] /\ p[2] <= q[2]))

(* Line 88: if max_val >= threshold. *)
MeetsThresholdStrict(max_val, threshold) == max_val > threshold

MeetsThreshold(max_val, threshold) == max_val >= threshold

(* Lines 89-95: max_loc is (x, y) = (col, row); the ROI's origin is added  *)
(* when a ROI was given.                                                   *)
MatchCornerLocal(roi, max_loc) == <<max_loc[2], max_loc[1]>>

MatchCorner(roi, max_loc) ==
    IF roi # None
    THEN <<roi[1] + max_loc[2], roi[2] + max_loc[1]>>
    ELSE <<max_loc[2], max_loc[1]>>

find_template(screenshot_source, template, threshold, roi) ==
    IF ~template.exists \/ ~template.decodable
    THEN Returned(None)
    ELSE IF screenshot_source \notin {"path", "ndarray"}
    THEN Returned(None)
    ELSE IF roi # None /\ RoiOutOfBounds(roi, Frame)
    THEN Returned(None)
    ELSE LET region == SearchRegion(roi, Frame)
         IN  IF region.w = 0 \/ region.h = 0
             THEN Raised    \* cv2.cvtColor of an empty crop raises cv2.error
             ELSE IF template.h > region.h \/ template.w > region.w
             THEN Returned(None)
             ELSE LET result == MatchInRegion(region, template)
                      max_loc == MaxLoc(result)
                      corner == MatchCorner(roi, max_loc)
                  IN  IF MeetsThreshold(MaxVal(result), threshold)
                      THEN Returned(<<corner[1], corner[2], template.w, template.h>>)
                      ELSE Returned(None)

FindTemplate ==
    /\ ft_pc = "call"
    /\ ft_result' = find_template(ft_args.source, ft_args.template,
                                  ft_args.threshold, ft_args.roi)
    /\ ft_pc' = "done"
    /\ shared_frame' = AfterReads(shared_frame)
    /\ UNCHANGED ft_args
    /\ UNCHANGED <<batchvars, pxvars, fnvars, ctlvars>>

(* ----------------- pixel predicates, image_analyzer.py ------------------ *)
(* A frame is an array of stored pixels [B, G, R], indexed <<row, col>>;   *)
(* colors passed to the predicates are (R, G, B).                          *)
Color == <<70, 0, 0>>

(* Stored pixels: the color itself, one 34 away on the red channel, one 35 *)
(* away, and the color with red and blue exchanged.                        *)
Palette == { <<0, 0, 70>>, <<0, 0, 36>>, <<0, 0, 35>>, <<70, 0, 0>> }

FrameCells == (0..(FrameH - 1)) \X (0..(FrameW - 1))

(* Frames of one background pixel value with at most one other pixel. *)
Frames ==
    { [c \in FrameCells |-> bg] : bg \in Palette } \cup
    { [c \in FrameCells |-> IF c = d THEN px ELSE bg] :
        bg \in Palette, px \in Palette, d \in FrameCells }

(* convert_pixel: stored [B, G, R] to [R, G, B]. *)
convert_pixel_identity(bad_format_pixel) == bad_format_pixel

convert_pixel(bad_format_pixel) ==
    <<bad_format_pixel[3], bad_format_pixel[2], bad_format_pixel[1]>>

pixel_is_equal_le(pix1, pix2, tol) ==
    /\ Abs(pix1[1] - pix2[1]) <= tol
    /\ Abs(pix1[2] - pix2[2]) <= tol
    /\ Abs(pix1[3] - pix2[3]) <= tol

pixel_is_equal(pix1, pix2, tol) ==
    LET diff_r == Abs(pix1[1] - pix2[1])
        diff_g == Abs(pix1[2] - pix2[2])
        diff_b == Abs(pix1[3] - pix2[3])
    IN  (diff_r < tol) /\ (diff_g < tol) /\ (diff_b < tol)

(* get_line_coordinates: the loop of lines 413-421, then the end point. *)
RECURSIVE LineLoop(_, _, _, _, _, _, _, _, _, _)
LineLoop(x_1, y_1, x_2, y_2, delta_x, delta_y, step_x, step_y, error, coordinates) ==
    IF x_1 = x_2 /\ y_1 = y_2
    THEN Append(coordinates, <<x_1, y_1>>)
    ELSE LET double_error == 2 * error
             move_x == double_error > -delta_y
             error_1 == IF move_x THEN error - delta_y ELSE error
             nx == IF move_x THEN x_1 + step_x ELSE x_1
             move_y == double_error < delta_x
             error_2 == IF move_y THEN error_1 + delta_x ELSE error_1
             ny == IF move_y THEN y_1 + step_y ELSE y_1
         IN  LineLoop(nx, ny, x_2, y_2, delta_x, delta_y, step_x, step_y, error_2,
                      Append(coordinates, <<x_1, y_1>>))

(* get_line_coordinates with the end point appended once more, and without *)
(* the end point.                                                          *)
get_line_coordinates_twice(x_1, y_1, x_2, y_2) ==
    LET delta_x == Abs(x_2 - x_1)
        delta_y == Abs(y_2 - y_1)
        step_x == IF x_1 > x_2 THEN -1 ELSE 1
        step_y == IF y_1 > y_2 THEN -1 ELSE 1
    IN  Append(LineLoop(x_1, y_1, x_2, y_2, delta_x, delta_y, step_x, step_y,
                        delta_x - delta_y, <<>>), <<x_2, y_2>>)

get_line_coordinates_open(x_1, y_1, x_2, y_2) ==
    LET delta_x == Abs(x_2 - x_1)
        delta_y == Abs(y_2 - y_1)
        step_x == IF x_1 > x_2 THEN -1 ELSE 1
        step_y == IF y_1 > y_2 THEN -1 ELSE 1
        coordinates == LineLoop(x_1, y_1, x_2, y_2, delta_x, delta_y, step_x, step_y,
                                delta_x - delta_y, <<>>)
    IN  SubSeq(coordinates, 1, Len(coordinates) - 1)

get_line_coordinates(x_1, y_1, x_2, y_2) ==
    LET delta_x == Abs(x_2 - x_1)
        delta_y == Abs(y_2 - y_1)
        step_x == IF x_1 > x_2 THEN -1 ELSE 1
        step_y == IF y_1 > y_2 THEN -1 ELSE 1
    IN  LineLoop(x_1, y_1, x_2, y_2, delta_x, delta_y, step_x, step_y,
                 delta_x - delta_y, <<>>)

(* for x_index in range(left, left + width, step):                         *)
(*     for y_index in range(top, top + height, step)                       *)
RangeLen(len, step) == IF len <= 0 THEN 0 ELSE (len + step - 1) \div step

RegionScan(region, step) ==
    LET n_x == RangeLen(region[3], step)
        n_y == RangeLen(region[4], step)
    IN  [k \in 1..(n_x * n_y) |->
            <<region[1] + step * ((k - 1) \div n_y),
              region[2] + step * ((k - 1) % n_y)>>]

(* The shape of the array, (rows, columns), which numpy checks indices    *)
(* against.                                                                *)
Shape(iar) ==
    <<Cardinality({ c \in DOMAIN iar : c[2] = 0 }),
      Cardinality({ c \in DOMAIN iar : c[1] = 0 })>>

(* iar[y][x]: numpy takes an index i of an axis of n elements when         *)
(* -n <= i < n, a negative one counting from the end, and raises           *)
(* IndexError otherwise.                                                   *)
IndexOk(i, n) == -n <= i /\ i < n

WrapIndex(i, n) == IF i < 0 THEN i + n ELSE i

Scanned(raised, value, examined) ==
    [raised |-> raised, value |-> value, examined |-> examined]

(* The tolerance the line and region predicates pass to pixel_is_equal. *)
PredicateTolFromCaller == px_args.tol

PredicateTol == 35

(* The pixel the loop reads at a coordinate, reordered by convert_pixel;   *)
(* OutOfRange tells that the read raises IndexError instead.               *)
OutOfRange(shape, coordinate) ==
    ~IndexOk(coordinate[2], shape[1]) \/ ~IndexOk(coordinate[1], shape[2])

PixelAt(iar, shape, coordinate) ==
    convert_pixel(iar[<<WrapIndex(coordinate[2], shape[1]),
                        WrapIndex(coordinate[1], shape[2])>>])

(* The first position of a set of positions of the coordinate list. *)
FirstOf(stops) == CHOOSE k \in stops : \A j \in stops : k <= j

(* The loop of line_is_color and region_is_color: it leaves at the first   *)
(* coordinate whose read raises or whose pixel is not equal to the color,  *)
(* with False in the latter case, and returns True when the coordinates    *)
(* run out.                                                                *)
ScanAll(iar, shape, coordinates, color) ==
    LET stops == { k \in DOMAIN coordinates :
                     \/ OutOfRange(shape, coordinates[k])
                     \/ ~pixel_is_equal(color, PixelAt(iar, shape, coordinates[k]),
                                        PredicateTol) }
    IN  IF stops = {}
        THEN Scanned(FALSE, TRUE, coordinates)
        ELSE IF OutOfRange(shape, coordinates[FirstOf(stops)])
        THEN Scanned(TRUE, FALSE, SubSeq(coordinates, 1, FirstOf(stops) - 1))
        ELSE Scanned(FALSE, FALSE, SubSeq(coordinates, 1, FirstOf(stops)))

(* The loop of check_line_for_color and check_region_for_color: it leaves  *)
(* at the first coordinate whose read raises or whose pixel is equal to    *)
(* the color, with True in the latter case, and returns False when the     *)
(* coordinates run out.                                                    *)
ScanAny(iar, shape, coordinates, color) ==
    LET stops == { k \in DOMAIN coordinates :
                     \/ OutOfRange(shape, coordinates[k])
                     \/ pixel_is_equal(color, PixelAt(iar, shape, coordinates[k]),
                                       PredicateTol) }
    IN  IF stops = {}
        THEN Scanned(FALSE, FALSE, coordinates)
        ELSE IF OutOfRange(shape, coordinates[FirstOf(stops)])
        THEN Scanned(TRUE, FALSE, SubSeq(coordinates, 1, FirstOf(stops) - 1))
        ELSE Scanned(FALSE, TRUE, SubSeq(coordinates, 1, FirstOf(stops)))

line_is_color(x_1, y_1, x_2, y_2, color, iar) ==
    ScanAll(iar, Shape(iar), get_line_coordinates(x_1, y_1, x_2, y_2), color)

check_line_for_color_all(x_1, y_1, x_2, y_2, color, iar) ==
    ScanAll(iar, Shape(iar), get_line_coordinates(x_1, y_1, x_2, y_2), color)

check_line_for_color(x_1, y_1, x_2, y_2, color, iar) ==
    ScanAny(iar, Shape(iar), get_line_coordinates(x_1, y_1, x_2, y_2), color)

CheckRegionCoordsStride2(region) == RegionScan(region, 2)

CheckRegionCoords(region) == RegionScan(region, 1)

check_region_for_color_all(region, color, iar) ==
    ScanAll(iar, Shape(iar), CheckRegionCoords(region), color)

check_region_for_color(region, color, iar) ==
    ScanAny(iar, Shape(iar), CheckRegionCoords(region), color)

RegionIsColorCoordsDense(region) == RegionScan(region, 1)

RegionIsColorCoords(region) == RegionScan(region, 2)

region_is_color(region, color, iar) ==
    ScanAll(iar, Shape(iar), RegionIsColorCoords(region), color)

(* if screenshot_np is None: screenshot_path, screenshot_np =               *)
(* sc.take_screenshot(); if screenshot_np is None: return False            *)
NeedsCaptureAlways(screenshot_np) == TRUE

NeedsCapture(screenshot_np) == screenshot_np # "given"

(* One call of a predicate: px_args.screenshot_np is "given" when the      *)
(* caller passes a frame, and otherwise tells whether the capture the      *)
(* predicate makes succeeds ("capture") or fails ("capture_fails").        *)
Predicate(op, scan) ==
    /\ px_pc = "call"
    /\ px_args.op = op
    /\ px_pc' = "done"
    /\ captures' = IF NeedsCapture(px_args.screenshot_np) THEN captures + 1 ELSE captures
    /\ px_result' = IF NeedsCapture(px_args.screenshot_np)
                       /\ px_args.screenshot_np = "capture_fails"
                    THEN Scanned(FALSE, FALSE, <<>>)
                    ELSE scan
    /\ shared_frame' = AfterReads(shared_frame)
    /\ UNCHANGED px_args
    /\ UNCHANGED <<batchvars, ftvars, fnvars, ctlvars>>

LineIsColor ==
    Predicate("line_is_color",
              line_is_color(px_args.at[1], px_args.at[2], px_args.at[3], px_args.at[4],
                            px_args.color, px_args.frame))

CheckLineForColor ==
    Predicate("check_line_for_color",
              check_line_for_color(px_args.at[1], px_args.at[2], px_args.at[3],
                                   px_args.at[4], px_args.color, px_args.frame))

CheckRegionForColor ==
    Predicate("check_region_for_color",
              check_region_for_color(px_args.at, px_args.color, px_args.frame))

RegionIsColor ==
    Predicate("region_is_color",
              region_is_color(px_args.at, px_args.color, px_args.frame))

(* pixel_is_equal called on its own. *)
PixelIsEqual ==
    /\ px_pc = "call"
    /\ px_args.op = "pixel_is_equal"
    /\ px_pc' = "done"
    /\ px_result' = Scanned(FALSE, pixel_is_equal(px_args.pix1, px_args.pix2, px_args.tol),
                            <<>>)
    /\ UNCHANGED <<px_args, captures>>
    /\ UNCHANGED <<batchvars, ftvars, latervars>>

(* ------------- main.py and EvertaleLauncher.run (482-506) --------------- *)
(* Most input events the automation script issues in one run. *)
MaxInputs == 4

Log(event) == main_log' = Append(main_log, event)

(* if not self.start_memu(): ... return False *)
StepFailedNever(ok) == FALSE

StepFailed(ok) == ~ok

(* A step of run was called and returned ok. *)
LauncherStep(step, ok, next) ==
    /\ main_pc = step
    /\ Log(<<step, IF ok THEN "True" ELSE "False">>)
    /\ IF StepFailed(ok)
       THEN main_pc' = "run_returned" /\ game_launched' = FALSE
       ELSE IF next = "return_true"
       THEN main_pc' = "run_returned" /\ game_launched' = TRUE
       ELSE main_pc' = next /\ UNCHANGED game_launched
    /\ UNCHANGED notmain

(* main: launcher = EvertaleLauncher(); game_launched = launcher.run() *)
MainCallsRun ==
    /\ main_pc = "main"
    /\ main_pc' = "start_memu"
    /\ Log(<<"launcher.run">>)
    /\ UNCHANGED game_launched
    /\ UNCHANGED notmain

StartMemu == \E ok \in BOOLEAN : LauncherStep("start_memu", ok, "wait_for_boot")

WaitForBoot == \E ok \in BOOLEAN : LauncherStep("wait_for_boot", ok, "launch_evertale")

(* wait_for_boot, at its timeout, calls diagnose_boot_failure (line 257),  *)
(* whose loop over psutil.process_iter (265-268) is outside any try:       *)
(* proc.info['name'] is None for a process whose name could not be read,   *)
(* and .lower() on it raises. The exception leaves run and main.           *)
WaitForBootRaises ==
    /\ main_pc = "wait_for_boot"
    /\ Log(<<"wait_for_boot", "raised">>)
    /\ main_pc' = "propagated"
    /\ UNCHANGED game_launched
    /\ UNCHANGED notmain

LaunchEvertale == \E ok \in BOOLEAN : LauncherStep("launch_evertale", ok, "return_true")

(* if game_launched: time.sleep(15); try: getting_main_menue.run() ...     *)
(* else: logger.error("Failed to launch the game. ...")                    *)
RunsAutomation(launched) == launched

MainBranch ==
    /\ main_pc = "run_returned"
    /\ IF RunsAutomation(game_launched)
       THEN main_pc' = "automation" /\ Log(<<"getting_main_menue.run">>)
       ELSE main_pc' = "finishing" /\ Log(<<"not_run">>)
    /\ UNCHANGED game_launched
    /\ UNCHANGED notmain

InputEvents == { e \in 1..Len(main_log) : main_log[e][1] \in {"tap", "swipe"} }

(* getting_main_menue.run issues a tap (ga.tap) or a swipe                 *)
(* (ga.drag_and_drop).                                                     *)
AutomationInput ==
    /\ main_pc = "automation"
    /\ Cardinality(InputEvents) < MaxInputs
    /\ \E kind \in {"tap", "swipe"} : Log(<<kind>>)
    /\ UNCHANGED <<main_pc, game_launched>>
    /\ UNCHANGED notmain

(* getting_main_menue.run returns: "All automation tasks completed." *)
AutomationReturns ==
    /\ main_pc = "automation"
    /\ main_pc' = "finishing"
    /\ Log(<<"completed">>)
    /\ UNCHANGED game_launched
    /\ UNCHANGED notmain

(* An Exception raised inside the automation: except Exception as e. *)
AutomationRaises ==
    /\ main_pc = "automation"
    /\ main_pc' = "finishing"
    /\ Log(<<"error">>)
    /\ UNCHANGED game_launched
    /\ UNCHANGED notmain

(* logger.info("Evertale Bot has finished its run.") *)
MainFinished ==
    /\ main_pc = "finishing"
    /\ main_pc' = "finished"
    /\ Log(<<"finished">>)
    /\ UNCHANGED game_launched
    /\ UNCHANGED notmain

MainIdle ==
    /\ main_pc = "idle"
    /\ game_launched = "none"
    /\ main_log = <<>>

(* ------------- GameActions.click_image, game_actions.py 33-97 ----------- *)
(* Largest max_attempts a caller passes. *)
MaxAttempts == 3

ClickLog(event) == ck_log' = Append(ck_log, event)

(* for attempt in range(1, max_attempts + 1): the next attempt, or the     *)
(* end of the loop and return False (line 97).                             *)
ClickNextAttempt ==
    /\ ck_pc = "for"
    /\ IF ck_attempt < ck_args.max_attempts
       THEN /\ ck_attempt' = ck_attempt + 1
            /\ ck_pc' = "take_screenshot"
            /\ UNCHANGED ck_result
       ELSE /\ ck_pc' = "returned"
            /\ ck_result' = FALSE
            /\ UNCHANGED ck_attempt
    /\ UNCHANGED <<ck_args, ck_log>>
    /\ UNCHANGED notclick

(* Lines 54-58: a failed capture sleeps and continues with the next        *)
(* attempt.                                                                *)
ClickScreenshot ==
    /\ ck_pc = "take_screenshot"
    /\ \E ok \in BOOLEAN :
          /\ ClickLog(<<"take_screenshot", IF ok THEN "ok" ELSE "failed">>)
          /\ ck_pc' = IF ok THEN "find_references" ELSE "for"
    /\ UNCHANGED <<ck_args, ck_attempt, ck_result>>
    /\ UNCHANGED notclick

(* Lines 62-66: find_references on the one template gives a location or    *)
(* None, or raises when the template cannot be read (the exception leaves  *)
(* click_image: only the tap is inside a try).                             *)
ClickSearch ==
    /\ ck_pc = "find_references"
    /\ \E found \in {"found", "not_found", "raised"} :
          /\ ClickLog(<<"find_references", found>>)
          /\ ck_pc' = CASE found = "found" -> "tap"
                        [] found = "not_found" -> "for"
                        [] found = "raised" -> "raised"
    /\ UNCHANGED <<ck_args, ck_attempt, ck_result>>
    /\ UNCHANGED notclick

(* if result.returncode == 0: ... return True *)
TapSucceededAlways(returncode) == TRUE

TapSucceeded(returncode) == returncode = 0

(* Lines 78-90: the tap command exits with a code, or subprocess.run       *)
(* raises, which is caught and logged.                                     *)
ClickTap ==
    /\ ck_pc = "tap"
    /\ \E raised \in BOOLEAN, returncode \in {0, 1} :
          /\ ClickLog(<<"tap", IF raised THEN "error"
                                ELSE IF returncode = 0 THEN "exit_0" ELSE "exit_1">>)
          /\ IF ~raised /\ TapSucceeded(returncode)
             THEN ck_pc' = "returned" /\ ck_result' = TRUE
             ELSE ck_pc' = "for" /\ UNCHANGED ck_result
    /\ UNCHANGED <<ck_args, ck_attempt>>
    /\ UNCHANGED notclick

ClickIdle ==
    /\ ck_pc = "idle"
    /\ ck_args = <<>>
    /\ ck_attempt = 0
    /\ ck_log = <<>>
    /\ ck_result = "none"

(* ------ GameActions.wait_for_checkpoint / wait_for_any_checkpoint ------- *)
(* Largest timeout a caller passes, in units of the clock. *)
MaxTimeout == 3

WaitLog(event) == wt_log' = Append(wt_log, event)

(* while time.time() - start_time < timeout: *)
LoopContinuesAtTimeout(elapsed, timeout) == elapsed <= timeout

LoopContinues(elapsed, timeout) == elapsed < timeout

(* Lines 116 / 246: the loop test; lines 135-136 / 265-266 after the loop. *)
(* The log keeps whether the timeout had elapsed when the test was made.   *)
WaitLoopTest ==
    /\ wt_pc = "while"
    /\ WaitLog(<<"while", IF wt_elapsed < wt_args.timeout THEN "before_timeout"
                                                          ELSE "timeout_reached">>)
    /\ IF LoopContinues(wt_elapsed, wt_args.timeout)
       THEN wt_pc' = "take_screenshot" /\ UNCHANGED wt_result
       ELSE wt_pc' = "returned" /\ wt_result' = "False"
    /\ UNCHANGED <<wt_args, wt_elapsed>>
    /\ UNCHANGED notwait

(* Lines 118-122 / 247-251: take_screenshot(save_to_disk=False) takes some *)
(* time and gives an array or None; None goes to time.sleep and continue.  *)
WaitScreenshot ==
    /\ wt_pc = "take_screenshot"
    /\ \E ok \in BOOLEAN, d \in 0..1 :
          /\ WaitLog(<<"take_screenshot", IF ok THEN "ok" ELSE "failed">>)
          /\ wt_elapsed' = wt_elapsed + d
          /\ wt_pc' = IF ok THEN "find_references" ELSE "sleep"
    /\ UNCHANGED <<wt_args, wt_result>>
    /\ UNCHANGED notwait

(* What find_references can return for n templates: per template a         *)
(* location or None.                                                       *)
LocationLists(n) == [1..n -> {None, <<0, 0>>}]

(* Line 128: if get_first_location(locations);                             *)
(* line 258: if any(loc is not None for loc in locations).                 *)
CheckpointFound(which, locs) ==
    IF which = "wait_for_checkpoint"
    THEN get_first_location(locs, FALSE) # None
    ELSE \E i \in DOMAIN locs : locs[i] # None

(* Lines 125-133 / 255-263: the search raises (nothing here catches it),   *)
(* or its result decides between return True and the sleep.                *)
WaitSearch ==
    /\ wt_pc = "find_references"
    /\ \/ /\ WaitLog(<<"find_references", "raised">>)
          /\ wt_pc' = "raised"
          /\ UNCHANGED wt_result
       \/ \E locs \in LocationLists(wt_args.n) :
             IF CheckpointFound(wt_args.which, locs)
             THEN /\ WaitLog(<<"find_references", "found">>)
                  /\ wt_pc' = "returned"
                  /\ wt_result' = "True"
             ELSE /\ WaitLog(<<"find_references", "not_found">>)
                  /\ wt_pc' = "sleep"
                  /\ UNCHANGED wt_result
    /\ UNCHANGED <<wt_args, wt_elapsed>>
    /\ UNCHANGED notwait

(* time.sleep(check_interval), then the loop test again. *)
WaitSleep ==
    /\ wt_pc = "sleep"
    /\ WaitLog(<<"sleep", "check_interval">>)
    /\ wt_elapsed' = wt_elapsed + wt_args.check_interval
    /\ wt_pc' = "while"
    /\ UNCHANGED <<wt_args, wt_result>>
    /\ UNCHANGED notwait

WaitIdle ==
    /\ wt_pc = "idle"
    /\ wt_args = <<>>
    /\ wt_elapsed = 0
    /\ wt_log = <<>>
    /\ wt_result = "none"

(* ------------------- ScreenCapture.take_screenshot ---------------------- *)
ShotLog(event) == ts_log' = Append(ts_log, event)

(* The pair take_screenshot returns: (path, screenshot_np). *)
ShotPair(path, image) == [path |-> path, image |-> image]

(* except FileNotFoundError / subprocess.TimeoutExpired / Exception        *)
(* (lines 105-113): which exceptions raised inside the try are caught.     *)
CaughtOnlyNamed(exc) == exc \in {"FileNotFoundError", "TimeoutExpired"}

Caught(exc) == exc \in {"FileNotFoundError", "TimeoutExpired", "OSError", "cv2.error"}

(* Every handler returns None, None; an exception no handler catches       *)
(* leaves take_screenshot.                                                 *)
ShotExcept(exc) ==
    IF Caught(exc)
    THEN ts_pc' = "returned" /\ ts_result' = ShotPair("None", "None")
    ELSE ts_pc' = "raised" /\ UNCHANGED ts_result

(* subprocess.run([ADB_PATH, ...], timeout=...): an exit code, the timeout *)
(* expiring, the executable missing or not startable.                      *)
AdbOutcomes == {"exit_0", "exit_1", "TimeoutExpired", "FileNotFoundError", "OSError"}

(* Lines 54-59 and 62-67: one ADB command; a non-zero exit code returns    *)
(* None, None, exit code 0 goes on to the next step.                       *)
AdbStep(command, next) ==
    /\ ts_pc = command
    /\ \E out \in AdbOutcomes :
          /\ ShotLog(<<command, out>>)
          /\ IF out = "exit_0" THEN ts_pc' = next /\ UNCHANGED ts_result
             ELSE IF out = "exit_1"
             THEN ts_pc' = "returned" /\ ts_result' = ShotPair("None", "None")
             ELSE ShotExcept(out)
    /\ UNCHANGED <<ts_args, ts_final_save_path>>
    /\ UNCHANGED notshot

ShotScreencap == AdbStep("screencap", "pull")

ShotPull == AdbStep("pull", "imread")

(* Lines 70-73: cv2.imread gives an array, or None for a file it cannot    *)
(* read, or raises.                                                        *)
ShotImread ==
    /\ ts_pc = "imread"
    /\ \E out \in {"array", "None", "cv2.error"} :
          /\ ShotLog(<<"imread", out>>)
          /\ IF out = "array" THEN ts_pc' = "save" /\ UNCHANGED ts_result
             ELSE IF out = "None"
             THEN ts_pc' = "returned" /\ ts_result' = ShotPair("None", "None")
             ELSE ShotExcept(out)
    /\ UNCHANGED <<ts_args, ts_final_save_path>>
    /\ UNCHANGED notshot

(* Lines 83-88: the file name the screenshot is saved under. *)
SaveName(filename) ==
    IF filename = "None" THEN "screenshot_timestamp.png"
    ELSE IF filename = "shot" THEN "shot.png"
    ELSE filename

(* Lines 76-97: with save_to_disk the temporary file is moved to           *)
(* final_save_path (the directory is created when missing), otherwise it   *)
(* is deleted when it exists; the file operations can raise OSError.       *)
ShotSave ==
    /\ ts_pc = "save"
    /\ \E dir_exists \in BOOLEAN, raised \in BOOLEAN :
          IF ts_args.save_to_disk
          THEN IF raised
               THEN /\ ShotLog(<<IF dir_exists THEN "os.replace" ELSE "os.makedirs", "OSError">>)
                    /\ ShotExcept("OSError")
                    /\ UNCHANGED ts_final_save_path
               ELSE /\ ShotLog(<<"os.replace", SaveName(ts_args.filename)>>)
                    /\ ts_final_save_path' = SaveName(ts_args.filename)
                    /\ ts_pc' = "rm"
                    /\ UNCHANGED ts_result
          ELSE IF raised
               THEN /\ ShotLog(<<"os.remove", "OSError">>)
                    /\ ShotExcept("OSError")
                    /\ UNCHANGED ts_final_save_path
               ELSE /\ ShotLog(<<IF dir_exists THEN "os.remove" ELSE "os.path.exists", "ok">>)
                    /\ ts_pc' = "rm"
                    /\ UNCHANGED <<ts_final_save_path, ts_result>>
    /\ UNCHANGED ts_args
    /\ UNCHANGED notshot

(* Lines 100-103: the rm command, whose exit code is not looked at, and    *)
(* the return of (abspath(final_save_path) or None, screenshot_np).        *)
ShotRm ==
    /\ ts_pc = "rm"
    /\ \E out \in AdbOutcomes :
          /\ ShotLog(<<"rm", out>>)
          /\ IF out \in {"exit_0", "exit_1"}
             THEN /\ ts_pc' = "returned"
                  /\ ts_result' = ShotPair(ts_final_save_path, "array")
             ELSE ShotExcept(out)
    /\ UNCHANGED <<ts_args, ts_final_save_path>>
    /\ UNCHANGED notshot

ShotIdle ==
    /\ ts_pc = "idle"
    /\ ts_args = <<>>
    /\ ts_final_save_path = "None"
    /\ ts_log = <<>>
    /\ ts_result = ShotPair("unset", "unset")

(* ----------------------- getting_main_menue.run ------------------------- *)
(* Largest overall_timeout in units of the clock, and the most taps one    *)
(* rapid-tap loop gets to make before its tap_timeout has elapsed.         *)
MaxOverall == 3
MaxTaps == 2

MenuLog(event) == gm_log' = Append(gm_log, event)

(* checkpoints (lines 98-102), in list order. *)
CheckpointsHomeFirst == <<"home_page", "boot_page", "sliding_page">>

Checkpoints == <<"boot_page", "sliding_page", "home_page">>

(* The handler_func of each entry: where its body starts. *)
HandlerEntry(cp) ==
    CASE cp = "boot_page" -> "boot_loop"
      [] cp = "sliding_page" -> "sliding_swipe"
      [] cp = "home_page" -> "home"

(* Line 106: the loop test; a new iteration starts, or line 129 is reached *)
(* and run returns.                                                        *)
MenuLoopTest ==
    /\ gm_pc = "while"
    /\ gm_log' = << <<"run", "while", "",
                      IF gm_elapsed < gm_args.overall_timeout THEN "before_timeout"
                                                              ELSE "timeout_reached">> >>
    /\ IF LoopContinues(gm_elapsed, gm_args.overall_timeout)
       THEN gm_pc' = "take_screenshot" /\ UNCHANGED gm_result
       ELSE gm_pc' = "returned" /\ gm_result' = "timed_out"
    /\ UNCHANGED <<gm_args, gm_elapsed, gm_cp, gm_taps>>
    /\ UNCHANGED notmenu

(* Lines 108-115: the iteration's screenshot; None sleeps 2 s and          *)
(* continues.                                                              *)
MenuScreenshot ==
    /\ gm_pc = "take_screenshot"
    /\ \E ok \in BOOLEAN :
          /\ MenuLog(<<"run", "take_screenshot", "", IF ok THEN "ok" ELSE "failed">>)
          /\ gm_pc' = IF ok THEN "for" ELSE "while"
          /\ gm_elapsed' = IF ok THEN gm_elapsed ELSE gm_elapsed + 1
    /\ gm_cp' = 1
    /\ UNCHANGED <<gm_args, gm_taps, gm_result>>
    /\ UNCHANGED notmenu

(* Lines 116-123: find_template on the iteration's screenshot for the      *)
(* checkpoint the for loop is at; a match calls its handler, no match goes *)
(* to the next checkpoint or leaves the loop with state_handled False.     *)
(* An exception of find_template leaves run.                               *)
MenuTest ==
    /\ gm_pc = "for"
    /\ \E out \in {"found", "not_found", "raised"} :
          /\ MenuLog(<<"run", "find_template", Checkpoints[gm_cp], out>>)
          /\ IF out = "found"
             THEN gm_pc' = HandlerEntry(Checkpoints[gm_cp]) /\ UNCHANGED gm_cp
             ELSE IF out = "raised"
             THEN gm_pc' = "raised" /\ UNCHANGED gm_cp
             ELSE IF gm_cp < Len(Checkpoints)
             THEN gm_pc' = "for" /\ gm_cp' = gm_cp + 1
             ELSE gm_pc' = "not_handled" /\ UNCHANGED gm_cp
    /\ gm_taps' = 0
    /\ UNCHANGED <<gm_args, gm_elapsed, gm_result>>
    /\ UNCHANGED notmenu

(* Lines 125-127: if not state_handled: time.sleep(5). *)
MenuNotHandled ==
    /\ gm_pc = "not_handled"
    /\ MenuLog(<<"run", "sleep", "", "5">>)
    /\ gm_elapsed' = gm_elapsed + 1
    /\ gm_pc' = "while"
    /\ UNCHANGED <<gm_args, gm_cp, gm_taps, gm_result>>
    /\ UNCHANGED notmenu

(* Lines 120-123: what run does with the value the handler returned. *)
HandlerEndsRunAlways(value) == TRUE

HandlerEndsRun(value) == value

HandlerReturns(entries, cp, value) ==
    /\ gm_log' = gm_log \o entries
                        \o << <<"run", "handler", cp, IF value THEN "True" ELSE "False">> >>
    /\ IF HandlerEndsRun(value)
       THEN gm_pc' = "returned" /\ gm_result' = "completed"
       ELSE gm_pc' = "while" /\ UNCHANGED gm_result

(* _handle_home_page, lines 31-33. *)
HandleHomePage ==
    /\ gm_pc = "home"
    /\ HandlerReturns(<<>>, "home_page", TRUE)
    /\ UNCHANGED <<gm_args, gm_elapsed, gm_cp, gm_taps>>
    /\ UNCHANGED notmenu

(* _handle_boot_page, lines 70-72: the rapid-tap loop taps until its       *)
(* tap_timeout has elapsed.                                                *)
BootTap ==
    /\ gm_pc = "boot_loop"
    /\ \/ /\ gm_taps < MaxTaps
          /\ MenuLog(<<"boot", "tap", "", "">>)
          /\ gm_taps' = gm_taps + 1
          /\ UNCHANGED <<gm_pc, gm_elapsed>>
       \/ /\ gm_taps >= 1
          /\ gm_elapsed' = gm_elapsed + 1
          /\ gm_pc' = "boot_shot"
          /\ UNCHANGED <<gm_taps, gm_log>>
    /\ UNCHANGED <<gm_args, gm_cp, gm_result>>
    /\ UNCHANGED notmenu

(* _handle_boot_page, lines 75-88: one screenshot; None returns False;     *)
(* otherwise the sliding page returns False, the home page True, anything  *)
(* else False.                                                             *)
BootLooksAgain ==
    /\ gm_pc = "boot_shot"
    /\ \E seen \in {"failed", "sliding_page", "home_page", "unrecognised", "raised"} :
          LET shot == <<"boot", "take_screenshot", "", IF seen = "failed" THEN "failed" ELSE "ok">>
              sliding == <<"boot", "find_template", "sliding_page",
                           IF seen = "sliding_page" THEN "found" ELSE "not_found">>
              home == <<"boot", "find_template", "home_page",
                        IF seen = "home_page" THEN "found" ELSE "not_found">>
          IN  CASE seen = "failed" -> HandlerReturns(<<shot>>, "boot_page", FALSE)
                [] seen = "sliding_page" -> HandlerReturns(<<shot, sliding>>, "boot_page", FALSE)
                [] seen = "home_page" -> HandlerReturns(<<shot, sliding, home>>, "boot_page", TRUE)
                [] seen = "unrecognised" -> HandlerReturns(<<shot, sliding, home>>, "boot_page", FALSE)
                [] seen = "raised" ->
                      /\ gm_log' = gm_log \o <<shot, <<"boot", "find_template", "sliding_page", "raised">> >>
                      /\ gm_pc' = "raised"
                      /\ UNCHANGED gm_result
    /\ UNCHANGED <<gm_args, gm_elapsed, gm_cp, gm_taps>>
    /\ UNCHANGED notmenu

(* _handle_sliding_page, lines 36-38: the swipe. *)
SlidingSwipe ==
    /\ gm_pc = "sliding_swipe"
    /\ MenuLog(<<"sliding", "swipe", "", "">>)
    /\ gm_pc' = "sliding_loop"
    /\ UNCHANGED <<gm_args, gm_elapsed, gm_cp, gm_taps, gm_result>>
    /\ UNCHANGED notmenu

(* _handle_sliding_page, lines 45-47 and 59-60: the next tap, or the       *)
(* tap_timeout has elapsed and the handler returns False.                  *)
SlidingTap ==
    /\ gm_pc = "sliding_loop"
    /\ \/ /\ gm_taps < MaxTaps
          /\ MenuLog(<<"sliding", "tap", "", "">>)
          /\ gm_taps' = gm_taps + 1
          /\ gm_pc' = "sliding_shot"
          /\ UNCHANGED <<gm_elapsed, gm_result>>
       \/ /\ gm_taps >= 1
          /\ gm_elapsed' = gm_elapsed + 1
          /\ HandlerReturns(<<>>, "sliding_page", FALSE)
          /\ UNCHANGED gm_taps
    /\ UNCHANGED <<gm_args, gm_cp>>
    /\ UNCHANGED notmenu

(* _handle_sliding_page, lines 49-57: a screenshot after each tap; None    *)
(* continues the loop, the home page returns True.                         *)
SlidingLooksAgain ==
    /\ gm_pc = "sliding_shot"
    /\ \E seen \in {"failed", "home_page", "unrecognised", "raised"} :
          LET shot == <<"sliding", "take_screenshot", "", IF seen = "failed" THEN "failed" ELSE "ok">>
              home == <<"sliding", "find_template", "home_page",
                        CASE seen = "home_page" -> "found"
                          [] seen = "raised" -> "raised"
                          [] OTHER -> "not_found">>
          IN  CASE seen = "failed" ->
                      MenuLog(shot) /\ gm_pc' = "sliding_loop" /\ UNCHANGED gm_result
                [] seen = "home_page" -> HandlerReturns(<<shot, home>>, "sliding_page", TRUE)
                [] seen = "unrecognised" ->
                      /\ gm_log' = gm_log \o <<shot, home>>
                      /\ gm_pc' = "sliding_loop"
                      /\ UNCHANGED gm_result
                [] seen = "raised" ->
                      /\ gm_log' = gm_log \o <<shot, home>>
                      /\ gm_pc' = "raised"
                      /\ UNCHANGED gm_result
    /\ UNCHANGED <<gm_args, gm_elapsed, gm_cp, gm_taps>>
    /\ UNCHANGED notmenu

MenuIdle ==
    /\ gm_pc = "idle"
    /\ gm_args = <<>>
    /\ gm_elapsed = 0
    /\ gm_cp = 1
    /\ gm_taps = 0
    /\ gm_log = <<>>
    /\ gm_result = "none"

(* ------------------- EvertaleLauncher.launch_evertale ------------------- *)
(* self.launch_timeout (line 38); range(15) of lines 409 and 429; the      *)
(* length of common_activities (lines 319-325).                            *)
launch_timeout == 45
ActivityPolls == 15
IntentPolls == 15
common_activities == 5

(* One entry of the log: a command or query, the activity it names (0 when *)
(* none), how it ended, the is_evertale_running calls that followed it and *)
(* whether the last of them returned True.                                 *)
LaunchEntry(cmd, activity, out) ==
    [cmd |-> cmd, activity |-> activity, out |-> out, polls |-> 0, running |-> FALSE]

LaunchLog(entry) == le_log' = Append(le_log, entry)

(* Every statement is inside the try of line 361: both handlers (lines     *)
(* 440-445) return False.                                                  *)
LaunchReturns(value) ==
    /\ le_pc' = "returned"
    /\ le_result' = value

(* Lines 362-363. *)
LaunchCheckInstalled ==
    /\ le_pc = "is_evertale_installed"
    /\ \E installed \in BOOLEAN :
          /\ LaunchLog(LaunchEntry("is_evertale_installed", 0,
                                    IF installed THEN "True" ELSE "False"))
          /\ IF installed
             THEN le_pc' = "keyevent" /\ UNCHANGED le_result
             ELSE LaunchReturns("False")
    /\ UNCHANGED <<le_args, le_activities, le_activity, le_poll>>
    /\ UNCHANGED notlaunch

(* Lines 368-370: the HOME key event, whose exit code is not looked at. *)
LaunchKeyEvent ==
    /\ le_pc = "keyevent"
    /\ \E out \in {"exit_0", "exit_1", "raised"} :
          /\ LaunchLog(LaunchEntry("keyevent", 0, out))
          /\ IF out = "raised"
             THEN LaunchReturns("False")
             ELSE le_pc' = "monkey" /\ UNCHANGED le_result
    /\ UNCHANGED <<le_args, le_activities, le_activity, le_poll>>
    /\ UNCHANGED notlaunch

(* if result.returncode == 0: (lines 379, 405, 426) *)
ExitedZeroOrNot(out) == out \in {"exit_0", "exit_1"}

ExitedZero(out) == out = "exit_0"

(* What follows a launch method that ended without confirmation: the       *)
(* activities after monkey, the next activity or the intent after an       *)
(* activity, the diagnostics after the intent.                             *)
AfterMethod(cmd) ==
    CASE cmd = "monkey" -> "get_evertale_main_activity"
      [] cmd = "am_start" -> IF le_activity < le_activities THEN "am_start" ELSE "intent"
      [] cmd = "intent" -> "diagnose_launch_failure"

MethodEnds(cmd) ==
    /\ le_pc' = AfterMethod(cmd)
    /\ le_activity' = IF cmd = "am_start" /\ le_activity < le_activities
                      THEN le_activity + 1 ELSE le_activity
    /\ UNCHANGED le_result

(* Lines 377-379, 403-405, 424-426: a launch command; exit code 0 starts   *)
(* the polling loop, another exit code ends the method, an exception ends  *)
(* launch_evertale.                                                        *)
LaunchCommand(cmd) ==
    /\ le_pc = cmd
    /\ \E out \in {"exit_0", "exit_1", "raised"} :
          /\ LaunchLog(LaunchEntry(cmd, IF cmd = "am_start" THEN le_activity ELSE 0, out))
          /\ IF out = "raised"
             THEN LaunchReturns("False") /\ UNCHANGED le_activity
             ELSE IF ExitedZero(out)
             THEN le_pc' = "poll" /\ UNCHANGED <<le_activity, le_result>>
             ELSE MethodEnds(cmd)
    /\ le_poll' = 0
    /\ UNCHANGED <<le_args, le_activities>>
    /\ UNCHANGED notlaunch

LaunchMonkey == LaunchCommand("monkey")

LaunchAmStart == LaunchCommand("am_start")

LaunchIntent == LaunchCommand("intent")

(* range(self.launch_timeout), range(15), range(15). *)
PollLimitOneMore(cmd) ==
    CASE cmd = "monkey" -> le_args.launch_timeout + 1
      [] cmd = "am_start" -> ActivityPolls + 1
      [] cmd = "intent" -> IntentPolls + 1

PollLimit(cmd) ==
    CASE cmd = "monkey" -> le_args.launch_timeout
      [] cmd = "am_start" -> ActivityPolls
      [] cmd = "intent" -> IntentPolls

(* Lines 384-388, 409-413, 429-433: one is_evertale_running call of the    *)
(* polling loop (it returns a bool, its own try catches everything), or    *)
(* the end of the loop.                                                    *)
LaunchPoll ==
    /\ le_pc = "poll"
    /\ LET n == Len(le_log)
           cmd == le_log[n].cmd
       IN  IF le_poll < PollLimit(cmd)
           THEN \E running \in BOOLEAN :
                   /\ le_log' = [le_log EXCEPT ![n].polls = @ + 1, ![n].running = running]
                   /\ le_poll' = le_poll + 1
                   /\ IF running
                      THEN LaunchReturns("True")
                      ELSE UNCHANGED <<le_pc, le_result>>
                   /\ UNCHANGED le_activity
           ELSE /\ MethodEnds(cmd)
                /\ UNCHANGED <<le_log, le_poll>>
    /\ UNCHANGED <<le_args, le_activities>>
    /\ UNCHANGED notlaunch

(* Lines 394-397: get_evertale_main_activity returns the list of common    *)
(* activities, or None when dumpsys failed.                                *)
LaunchGetActivities ==
    /\ le_pc = "get_evertale_main_activity"
    /\ \E listed \in BOOLEAN :
          /\ LaunchLog(LaunchEntry("get_evertale_main_activity", 0,
                                    IF listed THEN "list" ELSE "None"))
          /\ le_activities' = IF listed THEN common_activities ELSE 0
          /\ le_activity' = IF listed THEN 1 ELSE 0
          /\ le_pc' = IF listed THEN "am_start" ELSE "intent"
    /\ UNCHANGED <<le_args, le_poll, le_result>>
    /\ UNCHANGED notlaunch

(* Lines 436-438: diagnose_launch_failure (which catches what its commands *)
(* raise) and return False.                                                *)
LaunchDiagnose ==
    /\ le_pc = "diagnose_launch_failure"
    /\ LaunchLog(LaunchEntry("diagnose_launch_failure", 0, "done"))
    /\ LaunchReturns("False")
    /\ UNCHANGED <<le_args, le_activities, le_activity, le_poll>>
    /\ UNCHANGED notlaunch

LaunchIdle ==
    /\ le_pc = "idle"
    /\ le_args = <<>>
    /\ le_activities = 0
    /\ le_activity = 0
    /\ le_poll = 0
    /\ le_log = <<>>
    /\ le_result = "none"

(* -------------------- EvertaleLauncher.wait_for_boot -------------------- *)
WfbLog(event) == wb_log' = Append(wb_log, event)

(* Line 221: the loop test; lines 256-257 after the loop. *)
WfbLoopTest ==
    /\ wb_pc = "while"
    /\ WfbLog(<<"while", IF wb_elapsed < wb_args.boot_timeout THEN "before_timeout"
                                                             ELSE "timeout_reached">>)
    /\ wb_pc' = IF LoopContinues(wb_elapsed, wb_args.boot_timeout)
                THEN "try" ELSE "diagnose_boot_failure"
    /\ UNCHANGED <<wb_args, wb_elapsed, wb_adb_connected, wb_result>>
    /\ UNCHANGED notboot

(* Lines 225-232: check_adb_connection (a bool, it catches what its        *)
(* command raises) is asked only while adb_connected is False; False       *)
(* sleeps and continues.                                                   *)
WfbCheckAdb ==
    /\ wb_pc = "try"
    /\ IF wb_adb_connected
       THEN /\ wb_pc' = "getprop"
            /\ UNCHANGED <<wb_adb_connected, wb_log, wb_elapsed>>
       ELSE \E connected \in BOOLEAN :
               /\ WfbLog(<<"check_adb_connection", IF connected THEN "True" ELSE "False">>)
               /\ wb_adb_connected' = connected
               /\ wb_pc' = IF connected THEN "getprop" ELSE "while"
               /\ wb_elapsed' = IF connected THEN wb_elapsed
                                 ELSE wb_elapsed + wb_args.check_interval
    /\ UNCHANGED <<wb_args, wb_result>>
    /\ UNCHANGED notboot

(* if boot_result.returncode == 0 and "1" in boot_result.stdout.strip(): *)
BootedWhateverExit(out) == out \in {"exit_0_says_1", "exit_1_says_1"}

Booted(out) == out = "exit_0_says_1"

(* Lines 234-254: the sys.boot_completed query: an exit code and an output *)
(* with or without a 1, or an exception, which lines 249-252 catch; unless *)
(* booted, time.sleep(self.check_interval) and the loop test follow.       *)
WfbQuery ==
    /\ wb_pc = "getprop"
    /\ \E out \in {"exit_0_says_1", "exit_0_says_0", "exit_1_says_1", "exit_1_says_0",
                    "TimeoutExpired", "OSError"} :
          /\ WfbLog(<<"getprop", out>>)
          /\ IF Booted(out)
             THEN wb_pc' = "close_ads_and_dialogs" /\ UNCHANGED wb_elapsed
             ELSE wb_pc' = "while" /\ wb_elapsed' = wb_elapsed + wb_args.check_interval
    /\ UNCHANGED <<wb_args, wb_adb_connected, wb_result>>
    /\ UNCHANGED notboot

(* Lines 240-245: close_ads_and_dialogs (a bool that is ignored; it        *)
(* catches what its commands raise) and return True.                       *)
WfbCloseAds ==
    /\ wb_pc = "close_ads_and_dialogs"
    /\ \E closed \in BOOLEAN :
          WfbLog(<<"close_ads_and_dialogs", IF closed THEN "True" ELSE "False">>)
    /\ wb_pc' = "returned"
    /\ wb_result' = "True"
    /\ UNCHANGED <<wb_args, wb_elapsed, wb_adb_connected>>
    /\ UNCHANGED notboot

(* Lines 256-258: diagnose_boot_failure and return False; its loop over    *)
(* the processes (lines 265-268) is outside any try, and what it raises    *)
(* leaves wait_for_boot.                                                   *)
WfbDiagnose ==
    /\ wb_pc = "diagnose_boot_failure"
    /\ \E raised \in BOOLEAN :
          /\ WfbLog(<<"diagnose_boot_failure", IF raised THEN "raised" ELSE "returned">>)
          /\ IF raised
             THEN wb_pc' = "raised" /\ UNCHANGED wb_result
             ELSE wb_pc' = "returned" /\ wb_result' = "False"
    /\ UNCHANGED <<wb_args, wb_elapsed, wb_adb_connected>>
    /\ UNCHANGED notboot

BootIdle ==
    /\ wb_pc = "idle"
    /\ wb_args = <<>>
    /\ wb_elapsed = 0
    /\ wb_adb_connected = FALSE
    /\ wb_log = <<>>
    /\ wb_result = "none"

(* ---------------------- EvertaleLauncher.start_memu --------------------- *)
MemuLog(event) == sm_log' = Append(sm_log, event)

MemuReturns(value) ==
    /\ sm_pc' = "returned"
    /\ sm_result' = value

(* if self.is_memu_instance_running(): return True *)
AlreadyRunningIgnored(running) == FALSE

AlreadyRunning(running) == running

(* Lines 137-139: is_memu_instance_running returns a bool (it catches what *)
(* its command raises).                                                    *)
MemuCheckRunning ==
    /\ sm_pc = "is_memu_instance_running"
    /\ \E running \in BOOLEAN :
          /\ MemuLog(<<"is_memu_instance_running", IF running THEN "True" ELSE "False">>)
          /\ IF AlreadyRunning(running)
             THEN MemuReturns("True")
             ELSE sm_pc' = "kill_existing_memu_processes" /\ UNCHANGED sm_result
    /\ UNCHANGED <<sm_args, sm_killed>>
    /\ UNCHANGED notmemu

(* The process names kill_existing_memu_processes looks for (line 47). *)
MemuProcessNames == {"memu.exe", "memuheadless.exe", "memuhyperv.exe"}

(* Lines 141-146: kill_existing_memu_processes calls proc.kill() on the    *)
(* MEmu processes it gets to (a process that is gone or denied is skipped, *)
(* another error ends the iteration); its result is ignored; then the      *)
(* executable is looked for.                                               *)
MemuKill ==
    /\ sm_pc = "kill_existing_memu_processes"
    /\ \E killed \in SUBSET sm_args.processes, ok \in BOOLEAN :
          /\ sm_killed' = killed
          /\ MemuLog(<<"kill_existing_memu_processes", IF ok THEN "True" ELSE "False">>)
    /\ IF sm_args.memu_exists
       THEN sm_pc' = "list_memu_instances" /\ UNCHANGED sm_result
       ELSE MemuReturns("False")
    /\ UNCHANGED sm_args
    /\ UNCHANGED notmemu

(* Lines 149-151: list_memu_instances runs memuc listvms when the console  *)
(* exists and returns a list in every case.                                *)
MemuList ==
    /\ sm_pc = "list_memu_instances"
    /\ \E listed \in {"list", "empty"} :
          /\ listed = "list" => sm_args.console_exists
          /\ MemuLog(<<"list_memu_instances", listed>>)
    /\ sm_pc' = IF sm_args.console_exists THEN "memuc_start" ELSE "Popen"
    /\ UNCHANGED <<sm_args, sm_killed, sm_result>>
    /\ UNCHANGED notmemu

(* Lines 153-164: memuc start -i 0; exit code 0 returns True, another exit *)
(* code falls back to the direct launch, an exception returns False        *)
(* through line 189.                                                       *)
MemuConsoleStart ==
    /\ sm_pc = "memuc_start"
    /\ \E out \in {"exit_0", "exit_1", "raised"} :
          /\ MemuLog(<<"memuc_start", out>>)
          /\ CASE out = "exit_0" -> MemuReturns("True")
               [] out = "exit_1" -> sm_pc' = "Popen" /\ UNCHANGED sm_result
               [] out = "raised" -> MemuReturns("False")
    /\ UNCHANGED <<sm_args, sm_killed>>
    /\ UNCHANGED notmemu

(* Lines 167-187: subprocess.Popen([self.memu_path]); it raises, or the    *)
(* process has exited after 5 s (return False) or is running (return       *)
(* True).                                                                  *)
MemuDirectStart ==
    /\ sm_pc = "Popen"
    /\ \E out \in {"raised", "exited", "running"} :
          /\ MemuLog(<<"Popen", out>>)
          /\ MemuReturns(IF out = "running" THEN "True" ELSE "False")
    /\ UNCHANGED <<sm_args, sm_killed>>
    /\ UNCHANGED notmemu

MemuIdle ==
    /\ sm_pc = "idle"
    /\ sm_args = <<>>
    /\ sm_killed = {}
    /\ sm_log = <<>>
    /\ sm_result = "none"

(* ------- get_line_coordinates statement by statement, 406-424 ---------- *)
(* while x_1 != x_2 or y_1 != y_2: *)
LineContinuesBothDiffer(x_1, y_1, x_2, y_2) == x_1 # x_2 /\ y_1 # y_2

LineContinues(x_1, y_1, x_2, y_2) == x_1 # x_2 \/ y_1 # y_2

(* Lines 413-424: one iteration of the loop, or the append of the end      *)
(* point and the return.                                                   *)
LineIteration ==
    /\ ln_pc = "while"
    /\ LET x_2 == ln_args[3]
           y_2 == ln_args[4]
           delta_x == Abs(x_2 - ln_args[1])
           delta_y == Abs(y_2 - ln_args[2])
           step_x == IF ln_args[1] > x_2 THEN -1 ELSE 1
           step_y == IF ln_args[2] > y_2 THEN -1 ELSE 1
           double_error == 2 * ln_error
           move_x == double_error > -delta_y
           error_1 == IF move_x THEN ln_error - delta_y ELSE ln_error
           move_y == double_error < delta_x
       IN  /\ ln_coordinates' = Append(ln_coordinates, <<ln_x_1, ln_y_1>>)
           /\ IF LineContinues(ln_x_1, ln_y_1, x_2, y_2)
              THEN /\ ln_x_1' = IF move_x THEN ln_x_1 + step_x ELSE ln_x_1
                   /\ ln_y_1' = IF move_y THEN ln_y_1 + step_y ELSE ln_y_1
                   /\ ln_error' = IF move_y THEN error_1 + delta_x ELSE error_1
                   /\ UNCHANGED ln_pc
              ELSE /\ ln_pc' = "returned"
                   /\ UNCHANGED <<ln_x_1, ln_y_1, ln_error>>
    /\ UNCHANGED ln_args
    /\ UNCHANGED notline

LineIdle ==
    /\ ln_pc = "idle"
    /\ ln_args = <<>>
    /\ ln_x_1 = 0
    /\ ln_y_1 = 0
    /\ ln_error = 0
    /\ ln_coordinates = <<>>

(* Every procedure at rest but the one named. *)
ProcsIdleBut(name) ==
    /\ IF name = "wait" THEN TRUE ELSE WaitIdle
    /\ IF name = "shot" THEN TRUE ELSE ShotIdle
    /\ IF name = "menu" THEN TRUE ELSE MenuIdle
    /\ IF name = "launch" THEN TRUE ELSE LaunchIdle
    /\ IF name = "boot" THEN TRUE ELSE BootIdle
    /\ IF name = "memu" THEN TRUE ELSE MemuIdle
    /\ IF name = "line" THEN TRUE ELSE LineIdle

CtlIdle == MainIdle /\ ClickIdle /\ ProcsIdleBut("none")

(* ----------- coordinate and crop helpers, image_analyzer.py ------------- *)
(* Largest coordinate of a line end point, longest list condensed. *)
MaxCoord == 3

MaxLen == 3

(* The line a caller of get_line_coordinates gets. *)
LineOf(a) == get_line_coordinates(a[1], a[2], a[3], a[4])

(* np.abs(existing_coord[0] - x) < distance_threshold and                  *)
(* np.abs(existing_coord[1] - y) < distance_threshold                      *)
TooCloseEitherAxis(existing_coord, coord, distance_threshold) ==
    \/ Abs(existing_coord[1] - coord[1]) < distance_threshold
    \/ Abs(existing_coord[2] - coord[2]) < distance_threshold

TooClose(existing_coord, coord, distance_threshold) ==
    /\ Abs(existing_coord[1] - coord[1]) < distance_threshold
    /\ Abs(existing_coord[2] - coord[2]) < distance_threshold

(* One iteration of the loop: the coordinate is appended unless a          *)
(* coordinate already kept is too close.                                   *)
CondenseStepLastWins(condensed_coords, coord, distance_threshold) ==
    IF \E k \in DOMAIN condensed_coords :
          TooClose(condensed_coords[k], coord, distance_threshold)
    THEN LET first == CHOOSE k \in DOMAIN condensed_coords :
                         /\ TooClose(condensed_coords[k], coord, distance_threshold)
                         /\ \A j \in 1..(k - 1) :
                               ~TooClose(condensed_coords[j], coord, distance_threshold)
         IN  [condensed_coords EXCEPT ![first] = coord]
    ELSE Append(condensed_coords, coord)

CondenseStep(condensed_coords, coord, distance_threshold) ==
    IF ~\E k \in DOMAIN condensed_coords :
           TooClose(condensed_coords[k], coord, distance_threshold)
    THEN Append(condensed_coords, coord)
    ELSE condensed_coords

RECURSIVE CondenseLoop(_, _, _)
CondenseLoop(condensed_coords, coords, distance_threshold) ==
    IF coords = <<>>
    THEN condensed_coords
    ELSE CondenseLoop(CondenseStep(condensed_coords, Head(coords), distance_threshold),
                      Tail(coords), distance_threshold)

condense_coordinates(coords, distance_threshold) ==
    CondenseLoop(<<>>, coords, distance_threshold)

FnIdle ==
    /\ fn_pc = "idle"
    /\ fn_args = <<>>
    /\ fn_result = <<>>

LaterIdle == FnIdle /\ CtlIdle

GetLineCoordinates ==
    /\ fn_pc = "call"
    /\ fn_args.fn = "get_line_coordinates"
    /\ fn_pc' = "done"
    /\ fn_result' = LineOf(fn_args.at)
    /\ UNCHANGED <<fn_args, shared_frame>>
    /\ UNCHANGED <<batchvars, ftvars, pxvars, ctlvars>>

CondenseCoordinates ==
    /\ fn_pc = "call"
    /\ fn_args.fn = "condense_coordinates"
    /\ fn_pc' = "done"
    /\ fn_result' = condense_coordinates(fn_args.coords, fn_args.distance_threshold)
    /\ UNCHANGED <<fn_args, shared_frame>>
    /\ UNCHANGED <<batchvars, ftvars, pxvars, ctlvars>>

(* crop_image: image[top : top + height, left : left + width], a view of   *)
(* the rows and columns of the image inside the slices (the stops are      *)
(* clamped to the shape), for a corner and a size that are not negative.   *)
crop_image(image, region) ==
    LET shape == Shape(image)
        rows == SliceLen(region[2], region[4], shape[1])
        cols == SliceLen(region[1], region[3], shape[2])
    IN  [c \in (0..(rows - 1)) \X (0..(cols - 1)) |->
            image[<<region[2] + c[1], region[1] + c[2]>>]]

CropImage ==
    /\ fn_pc = "call"
    /\ fn_args.fn = "crop_image"
    /\ fn_pc' = "done"
    /\ fn_result' = crop_image(shared_frame, fn_args.region)
    /\ shared_frame' = AfterReads(shared_frame)
    /\ UNCHANGED fn_args
    /\ UNCHANGED <<batchvars, ftvars, pxvars, ctlvars>>

(* The frame of the calls whose model does not read its pixels. *)
DefaultFrame == [c \in FrameCells |-> <<0, 0, 70>>]

(* --------------------------- specifications ---------------------------- *)
InitCall(pool) ==
    /\ caller \in {"click_image", "find_and_click_any"}
    /\ \E n \in 1..MaxTemplates :
        /\ caller = "click_image" => n = 1
        /\ templates \in [1..n -> pool]
    /\ tolerance \in Tolerances
    /\ pc = "submit"
    /\ worker = [i \in 1..Len(templates) |-> "idle"]
    /\ outcome = [i \in 1..Len(templates) |-> Returned(None)]
    /\ queue = <<>>
    /\ locations = <<>>
    /\ found_location = None
    /\ tap = <<>>
    /\ ft_pc = "idle"
    /\ ft_args = <<>>
    /\ ft_result = Returned(None)
    /\ px_pc = "idle"
    /\ px_args = <<>>
    /\ px_result = Scanned(FALSE, FALSE, <<>>)
    /\ captures = 0
    /\ LaterIdle
    /\ shared_frame = DefaultFrame

Init == InitCall(BatchTemplates)

Next ==
    \/ Submit
    \/ \E i \in 1..N : WorkerFinish(i)
    \/ AsCompleted
    \/ Collect
    \/ Return
    \/ Propagate
    \/ GetFirstLocation
    \/ TapCommand

Spec == Init /\ [][Next]_vars

(* One template, correlation surfaces with up to two peaks: compare_images *)
(* as a function.                                                          *)
InitCompare ==
    /\ InitCall(CompareTemplates)
    /\ Len(templates) = 1

SpecCompare == InitCompare /\ [][Next]_vars

(* find_template as a function of its arguments. *)
InitFT ==
    /\ ft_pc = "call"
    /\ ft_args \in [source : ScreenshotSources, template : TemplateFiles,
                    threshold : Tolerances, roi : Rois]
    /\ ft_result = Returned(None)
    /\ px_pc = "idle"
    /\ px_args = <<>>
    /\ px_result = Scanned(FALSE, FALSE, <<>>)
    /\ captures = 0
    /\ LaterIdle
    /\ shared_frame = DefaultFrame
    /\ caller = "none"
    /\ templates = <<>>
    /\ tolerance = 1
    /\ pc = "idle"
    /\ worker = <<>>
    /\ outcome = <<>>
    /\ queue = <<>>
    /\ locations = <<>>
    /\ found_location = None
    /\ tap = <<>>

NextFT == FindTemplate

SpecFT == InitFT /\ [][NextFT]_vars

(* The pixel predicates as functions of their arguments: line end points   *)
(* and region corners from one pixel outside the frame on, the tolerance   *)
(* the caller means the call to use (the predicates take no such           *)
(* parameter), and pixel_is_equal over channel values 0, 35, 36 and 70.    *)
LinePoints ==
    ((-1)..FrameW) \X ((-1)..FrameH) \X ((-1)..FrameW) \X ((-1)..FrameH)

Regions ==
    ((-1)..(FrameW - 1)) \X ((-1)..(FrameH - 1)) \X (0..(FrameW + 1)) \X (0..(FrameH + 1))

CallerTols == {10, 36}

ChannelValues == {0, 35, 36, 70}

EqualTols == {1, 35, 36}

PredicateCalls(ops, ats) ==
    [op : ops, at : ats, color : {Color}, tol : CallerTols,
     screenshot_np : {"given", "capture", "capture_fails"}, frame : Frames]

InitPixel ==
    /\ px_pc = "call"
    /\ px_args \in
         PredicateCalls({"line_is_color", "check_line_for_color"}, LinePoints) \cup
         PredicateCalls({"check_region_for_color", "region_is_color"}, Regions) \cup
         [op : {"pixel_is_equal"},
          pix1 : ChannelValues \X ChannelValues \X ChannelValues,
          pix2 : ChannelValues \X ChannelValues \X ChannelValues,
          tol : EqualTols]
    /\ px_result = Scanned(FALSE, FALSE, <<>>)
    /\ captures = 0
    /\ LaterIdle
    /\ shared_frame = IF px_args.op = "pixel_is_equal" THEN DefaultFrame ELSE px_args.frame
    /\ ft_pc = "idle"
    /\ ft_args = <<>>
    /\ ft_result = Returned(None)
    /\ caller = "none"
    /\ templates = <<>>
    /\ tolerance = 1
    /\ pc = "idle"
    /\ worker = <<>>
    /\ outcome = <<>>
    /\ queue = <<>>
    /\ locations = <<>>
    /\ found_location = None
    /\ tap = <<>>

NextPixel ==
    \/ LineIsColor
    \/ CheckLineForColor
    \/ CheckRegionForColor
    \/ RegionIsColor
    \/ PixelIsEqual

SpecPixel == InitPixel /\ [][NextPixel]_vars

(* The helpers as functions of their arguments: line end points from -1 to *)
(* MaxCoord, lists of at most MaxLen coordinates of a 3x3 grid condensed   *)
(* under thresholds from -1 to 3, and crops of a frame.                    *)
EndPoints ==
    ((-1)..MaxCoord) \X ((-1)..MaxCoord) \X ((-1)..MaxCoord) \X ((-1)..MaxCoord)

GridPoints == (0..2) \X (0..2)

CoordLists == UNION { [1..n -> GridPoints] : n \in 0..MaxLen }

Thresholds == (-1)..3

(* crop_image: regions with a corner in the frame or on its far edge and a *)
(* size up to one more than the frame's; frames of one pixel value with    *)
(* one pixel of another.                                                   *)
CropRegions == (0..FrameW) \X (0..FrameH) \X (0..(FrameW + 1)) \X (0..(FrameH + 1))

CropFrames ==
    { [c \in FrameCells |-> IF c = d THEN <<70, 0, 0>> ELSE <<0, 0, 70>>] :
        d \in FrameCells }

InitPure ==
    /\ fn_pc = "call"
    /\ fn_args \in
         [fn : {"get_line_coordinates"}, at : EndPoints] \cup
         [fn : {"condense_coordinates"}, coords : CoordLists,
          distance_threshold : Thresholds] \cup
         [fn : {"crop_image"}, region : CropRegions]
    /\ fn_result = <<>>
    /\ shared_frame \in CropFrames
    /\ CtlIdle
    /\ px_pc = "idle"
    /\ px_args = <<>>
    /\ px_result = Scanned(FALSE, FALSE, <<>>)
    /\ captures = 0
    /\ ft_pc = "idle"
    /\ ft_args = <<>>
    /\ ft_result = Returned(None)
    /\ caller = "none"
    /\ templates = <<>>
    /\ tolerance = 1
    /\ pc = "idle"
    /\ worker = <<>>
    /\ outcome = <<>>
    /\ queue = <<>>
    /\ locations = <<>>
    /\ found_location = None
    /\ tap = <<>>

NextPure ==
    \/ GetLineCoordinates
    \/ CondenseCoordinates
    \/ CropImage

SpecPure == InitPure /\ [][NextPure]_vars

(* The two region predicates on one 100x100 frame: pixels (10, 10, 10)     *)
(* except a 20x20 patch of (200, 200, 200) with its top-left corner at     *)
(* (40, 40); 40x40 regions with their corner at or next to (30, 30).       *)
SceneFrame ==
    [c \in (0..99) \X (0..99) |->
        IF c[1] \in 40..59 /\ c[2] \in 40..59
        THEN <<200, 200, 200>>
        ELSE <<10, 10, 10>>]

SceneRegions == { <<left, top, 40, 40>> : left \in 29..31, top \in 29..31 }

InitScene ==
    /\ px_pc = "call"
    /\ px_args \in
         [op : {"check_region_for_color", "region_is_color"}, at : SceneRegions,
          color : { <<200, 200, 200>>, <<10, 10, 10>> }, tol : {5},
          screenshot_np : {"given", "capture", "capture_fails"}, frame : {SceneFrame}]
    /\ px_result = Scanned(FALSE, FALSE, <<>>)
    /\ captures = 0
    /\ LaterIdle
    /\ shared_frame = SceneFrame
    /\ ft_pc = "idle"
    /\ ft_args = <<>>
    /\ ft_result = Returned(None)
    /\ caller = "none"
    /\ templates = <<>>
    /\ tolerance = 1
    /\ pc = "idle"
    /\ worker = <<>>
    /\ outcome = <<>>
    /\ queue = <<>>
    /\ locations = <<>>
    /\ found_location = None
    /\ tap = <<>>

NextScene ==
    \/ CheckRegionForColor
    \/ RegionIsColor

SpecScene == InitScene /\ [][NextScene]_vars

(* Any one of the calls that are given a frame or a template: a batch of   *)
(* find_references with its workers, find_template, a pixel predicate or a *)
(* helper.                                                                 *)
InitShared ==
    \/ Init
    \/ InitFT
    \/ InitPixel
    \/ InitPure

NextShared ==
    \/ Next
    \/ NextFT
    \/ NextPixel
    \/ NextPure

SpecShared == InitShared /\ [][NextShared]_vars

(* Every group of calls at rest but the one named. *)
OthersIdle ==
    /\ px_pc = "idle"
    /\ px_args = <<>>
    /\ px_result = Scanned(FALSE, FALSE, <<>>)
    /\ captures = 0
    /\ FnIdle
    /\ shared_frame = DefaultFrame
    /\ ft_pc = "idle"
    /\ ft_args = <<>>
    /\ ft_result = Returned(None)
    /\ caller = "none"
    /\ templates = <<>>
    /\ tolerance = 1
    /\ pc = "idle"
    /\ worker = <<>>
    /\ outcome = <<>>
    /\ queue = <<>>
    /\ locations = <<>>
    /\ found_location = None
    /\ tap = <<>>

(* One run of main. *)
InitMain ==
    /\ main_pc = "main"
    /\ game_launched = "none"
    /\ main_log = <<>>
    /\ ClickIdle
    /\ ProcsIdleBut("none")
    /\ OthersIdle

NextMain ==
    \/ MainCallsRun
    \/ StartMemu
    \/ WaitForBoot
    \/ WaitForBootRaises
    \/ LaunchEvertale
    \/ MainBranch
    \/ AutomationInput
    \/ AutomationReturns
    \/ AutomationRaises
    \/ MainFinished

SpecMain == InitMain /\ [][NextMain]_vars

(* main keeps running while it has a statement to execute. *)
SpecMainFair == SpecMain /\ WF_vars(NextMain)

(* One call of click_image with max_attempts from 0 to MaxAttempts. *)
InitClick ==
    /\ ck_pc = "for"
    /\ ck_args \in [max_attempts : 0..MaxAttempts]
    /\ ck_attempt = 0
    /\ ck_log = <<>>
    /\ ck_result = "none"
    /\ MainIdle
    /\ ProcsIdleBut("none")
    /\ OthersIdle

NextClick ==
    \/ ClickNextAttempt
    \/ ClickScreenshot
    \/ ClickSearch
    \/ ClickTap

SpecClick == InitClick /\ [][NextClick]_vars

(* One call of wait_for_checkpoint (one template) or of                    *)
(* wait_for_any_checkpoint (one or two templates).                         *)
WaitCalls ==
    { a \in [which : {"wait_for_checkpoint", "wait_for_any_checkpoint"},
             timeout : 0..MaxTimeout, check_interval : 1..2, n : 1..2] :
        a.which = "wait_for_checkpoint" => a.n = 1 }

InitWait ==
    /\ wt_pc = "while"
    /\ wt_args \in WaitCalls
    /\ wt_elapsed = 0
    /\ wt_log = <<>>
    /\ wt_result = "none"
    /\ MainIdle
    /\ ClickIdle
    /\ ProcsIdleBut("wait")
    /\ OthersIdle

NextWait ==
    \/ WaitLoopTest
    \/ WaitScreenshot
    \/ WaitSearch
    \/ WaitSleep

SpecWait == InitWait /\ [][NextWait]_vars

(* One call of take_screenshot: save_to_disk or not, filename left out,    *)
(* given without or with the .png suffix.                                  *)
InitShot ==
    /\ ts_pc = "screencap"
    /\ ts_args \in [save_to_disk : BOOLEAN, filename : {"None", "shot", "shot.png"}]
    /\ ts_final_save_path = "None"
    /\ ts_log = <<>>
    /\ ts_result = ShotPair("unset", "unset")
    /\ MainIdle
    /\ ClickIdle
    /\ ProcsIdleBut("shot")
    /\ OthersIdle

NextShot ==
    \/ ShotScreencap
    \/ ShotPull
    \/ ShotImread
    \/ ShotSave
    \/ ShotRm

SpecShot == InitShot /\ [][NextShot]_vars

(* One call of getting_main_menue.run. *)
InitMenu ==
    /\ gm_pc = "while"
    /\ gm_args \in [overall_timeout : 1..MaxOverall]
    /\ gm_elapsed = 0
    /\ gm_cp = 1
    /\ gm_taps = 0
    /\ gm_log = <<>>
    /\ gm_result = "none"
    /\ MainIdle
    /\ ClickIdle
    /\ ProcsIdleBut("menu")
    /\ OthersIdle

NextMenu ==
    \/ MenuLoopTest
    \/ MenuScreenshot
    \/ MenuTest
    \/ MenuNotHandled
    \/ HandleHomePage
    \/ BootTap
    \/ BootLooksAgain
    \/ SlidingSwipe
    \/ SlidingTap
    \/ SlidingLooksAgain

SpecMenu == InitMenu /\ [][NextMenu]_vars

(* One call of launch_evertale. *)
InitLaunch ==
    /\ le_pc = "is_evertale_installed"
    /\ le_args = [launch_timeout |-> launch_timeout]
    /\ le_activities = 0
    /\ le_activity = 0
    /\ le_poll = 0
    /\ le_log = <<>>
    /\ le_result = "none"
    /\ MainIdle
    /\ ClickIdle
    /\ ProcsIdleBut("launch")
    /\ OthersIdle

NextLaunch ==
    \/ LaunchCheckInstalled
    \/ LaunchKeyEvent
    \/ LaunchMonkey
    \/ LaunchGetActivities
    \/ LaunchAmStart
    \/ LaunchIntent
    \/ LaunchPoll
    \/ LaunchDiagnose

SpecLaunch == InitLaunch /\ [][NextLaunch]_vars

(* launch_evertale keeps running while it has a statement to execute. *)
SpecLaunchFair == SpecLaunch /\ WF_vars(NextLaunch)

(* One call of wait_for_boot. *)
InitBoot ==
    /\ wb_pc = "while"
    /\ wb_args \in [boot_timeout : 1..MaxTimeout, check_interval : 1..2]
    /\ wb_elapsed = 0
    /\ wb_adb_connected = FALSE
    /\ wb_log = <<>>
    /\ wb_result = "none"
    /\ MainIdle
    /\ ClickIdle
    /\ ProcsIdleBut("boot")
    /\ OthersIdle

NextBoot ==
    \/ WfbLoopTest
    \/ WfbCheckAdb
    \/ WfbQuery
    \/ WfbCloseAds
    \/ WfbDiagnose

SpecBoot == InitBoot /\ [][NextBoot]_vars

(* One call of start_memu, with MEmu.exe and memuc.exe present or not. *)
InitMemu ==
    /\ sm_pc = "is_memu_instance_running"
    /\ sm_args \in [memu_exists : BOOLEAN, console_exists : BOOLEAN,
                     processes : SUBSET MemuProcessNames]
    /\ sm_killed = {}
    /\ sm_log = <<>>
    /\ sm_result = "none"
    /\ MainIdle
    /\ ClickIdle
    /\ ProcsIdleBut("memu")
    /\ OthersIdle

NextMemu ==
    \/ MemuCheckRunning
    \/ MemuKill
    \/ MemuList
    \/ MemuConsoleStart
    \/ MemuDirectStart

SpecMemu == InitMemu /\ [][NextMemu]_vars

(* One call of get_line_coordinates, lines 406-411 done. *)
InitLine ==
    /\ ln_pc = "while"
    /\ ln_args \in EndPoints
    /\ ln_x_1 = ln_args[1]
    /\ ln_y_1 = ln_args[2]
    /\ ln_error = Abs(ln_args[3] - ln_args[1]) - Abs(ln_args[4] - ln_args[2])
    /\ ln_coordinates = <<>>
    /\ MainIdle
    /\ ClickIdle
    /\ ProcsIdleBut("line")
    /\ OthersIdle

NextLine == LineIteration

SpecLine == InitLine /\ [][NextLine]_vars

(* The interpreter goes on while the call has a statement to execute. *)
SpecLineFair == SpecLine /\ WF_vars(NextLine)

(* ============================ claims =================================== *)
(* What compare_images yields for template i of the batch. *)
Expected(i) == compare_images(Frame, templates[i], tolerance)

(* Templates of the batch that match the frame. *)
Matching == { i \in 1..N : ~Expected(i).raised /\ Expected(i).value # None }

Min(S) == CHOOSE m \in S : \A k \in S : m <= k

CallerHoldsList == pc \in {"returned", "checked", "tapped", "not_found"}

Fits(t) == t.loaded /\ t.w <= Frame.w /\ t.h <= Frame.h

Oversize(t) == t.loaded /\ (t.w > Frame.w \/ t.h > Frame.h)

(* C1: the list find_references returns has N slots and slot i holds the   *)
(* result of matching template_paths[i], whatever the completion order.    *)
C1_PositionalSlots ==
    pc = "returned" =>
        /\ Len(locations) = N
        /\ \A i \in 1..N : locations[i] = Expected(i).value

(* C2: when two or more templates match, get_first_location (and the tap   *)
(* of find_and_click_any) selects the matching template with the smallest  *)
(* index in template_paths, whatever the completion order.                 *)
C2_SmallestIndexWins ==
    (pc \in {"checked", "tapped"} /\ Cardinality(Matching) >= 2) =>
        /\ found_location = Expected(Min(Matching)).value
        /\ pc = "tapped" =>
             tap = <<Expected(Min(Matching)).value[1], Expected(Min(Matching)).value[2]>>

(* C3: a template that cv2.imread could not load does not abort the batch: *)
(* no exception reaches the caller, and the returned list is full, with    *)
(* None in that template's slot and every other template's own result.     *)
C3_LoadFailureIsolated ==
    ( /\ \E i \in 1..N : ~templates[i].loaded
      /\ \A i \in 1..N : templates[i].loaded => Fits(templates[i]) ) =>
        /\ pc # "raised"
        /\ pc = "returned" =>
             /\ Len(locations) = N
             /\ \A i \in 1..N :
                  locations[i] = IF templates[i].loaded THEN Expected(i).value ELSE None

(* C4: find_references hands control back to its caller only after every   *)
(* worker of the batch has finished, and a caller that holds the result    *)
(* list holds all N slots.                                                 *)
C4_NoPartialResults ==
    /\ (CallerHoldsList \/ pc = "raised") => \A i \in 1..N : worker[i] = "finished"
    /\ CallerHoldsList => Len(locations) = N

C4_Witness ==
    /\ pc = "returned"
    /\ N >= 2
    /\ \E i \in 1..N : locations[i] # Expected(i).value

(* C5: when template k is the only one of the batch that matches,          *)
(* get_first_location over the returned list is template k's location,     *)
(* for every k and every completion order.                                 *)
C5_OnlyMatchSelected ==
    \A k \in 1..N :
        (pc \in {"checked", "tapped", "not_found"} /\ Matching = {k}) =>
            found_location = Expected(k).value

C5_Witness ==
    /\ pc = "checked"
    /\ N >= 2
    /\ \E k \in 1..N : Matching = {k} /\ locations[k] = None

(* C6: when exactly one alignment meets the threshold, with its top-left   *)
(* corner at column x and row y, compare_images returns [x, y] and         *)
(* click_image taps the device at (x, y).                                  *)
C6_XThenY ==
    \A i \in 1..N :
        ( /\ worker[i] = "finished"
          /\ Fits(templates[i])
          /\ Cardinality(NpWhere(templates[i].res, tolerance)) = 1 ) =>
            LET p == CHOOSE q \in NpWhere(templates[i].res, tolerance) : TRUE
                x == p[2]
                y == p[1]
            IN  /\ outcome[i] = Returned(<<x, y>>)
                /\ (pc = "tapped" /\ N = 1) => tap = <<x, y>>

(* The alignment of maximum correlation, ties broken by smallest y (row)   *)
(* then smallest x (col).                                                  *)
ArgMax(res) ==
    CHOOSE p \in DOMAIN res :
        \A q \in DOMAIN res :
            \/ res[q] < res[p]
            \/ /\ res[q] = res[p]
               /\ (p[1] < q[1] \/ (p[1] = q[1] /\ p[2] <= q[2]))

(* C7: when more than one alignment meets the threshold, compare_images    *)
(* still reports a match, the maximum-correlation alignment with ties      *)
(* broken by smallest y then smallest x (named here in either coordinate   *)
(* order), and never "not found".                                          *)
C7_MaxCorrelationReported ==
    \A i \in 1..N :
        ( /\ worker[i] = "finished"
          /\ Fits(templates[i])
          /\ Cardinality(NpWhere(templates[i].res, tolerance)) > 1 ) =>
            LET p == ArgMax(templates[i].res)
            IN  /\ ~outcome[i].raised
                /\ outcome[i].value \in { <<p[2], p[1]>>, <<p[1], p[2]>> }

(* C10: in a batch, a template wider or taller than the frame resolves to  *)
(* None and is not an error: no exception reaches the caller.              *)
C10_OversizeIsNotFound ==
    /\ \A i \in 1..N :
         (worker[i] = "finished" /\ Oversize(templates[i])) => outcome[i] = Returned(None)
    /\ ( /\ \E i \in 1..N : Oversize(templates[i])
         /\ \A i \in 1..N : templates[i].loaded ) => pc # "raised"

(* ------------------------- find_template claims ------------------------ *)
FTDone == ft_pc = "done"

FTLoaded ==
    /\ ft_args.template.exists
    /\ ft_args.template.decodable
    /\ ft_args.source \in {"path", "ndarray"}

(* The ROI is not fully inside the frame. *)
NotInsideFrame(roi) ==
    \/ roi[1] < 0
    \/ roi[2] < 0
    \/ roi[1] + roi[3] > FrameW
    \/ roi[2] + roi[4] > FrameH

SearchW == IF ft_args.roi = None THEN FrameW ELSE ft_args.roi[3]
SearchH == IF ft_args.roi = None THEN FrameH ELSE ft_args.roi[4]

(* C9: whenever the template is wider or taller than the search area,      *)
(* find_template returns None and raises no error.                         *)
C9_LargerTemplateNotFound ==
    ( /\ FTDone
      /\ FTLoaded
      /\ (ft_args.template.w > SearchW \/ ft_args.template.h > SearchH) ) =>
        ft_result = Returned(None)

(* Valid inputs: template and screenshot load, the ROI (if any) lies       *)
(* inside the frame, and the template fits in the search area.             *)
FTRoiX == IF ft_args.roi = None THEN 0 ELSE ft_args.roi[1]
FTRoiY == IF ft_args.roi = None THEN 0 ELSE ft_args.roi[2]

FTValid ==
    /\ FTLoaded
    /\ ft_args.roi # None => ~NotInsideFrame(ft_args.roi)
    /\ ft_args.template.w <= SearchW
    /\ ft_args.template.h <= SearchH

(* Alignments <<row, col>> of the template, in frame coordinates, that lie *)
(* inside the search area.                                                 *)
FTAlignments ==
    { p \in DOMAIN ft_args.template.score :
        /\ p[2] >= FTRoiX /\ p[2] + ft_args.template.w <= FTRoiX + SearchW
        /\ p[1] >= FTRoiY /\ p[1] + ft_args.template.h <= FTRoiY + SearchH }

FTBest(p) ==
    /\ p \in FTAlignments
    /\ \A q \in FTAlignments : ft_args.template.score[q] <= ft_args.template.score[p]

(* C11: for valid inputs, find_template returns a match exactly when the   *)
(* maximum correlation over the alignments of the search area is at least  *)
(* the threshold (equal to it included), and None otherwise.               *)
C11_MatchIffMaxAtLeastThreshold ==
    (FTDone /\ FTValid) =>
        /\ ~ft_result.raised
        /\ ft_result.value # None <=>
             \E p \in FTAlignments : ft_args.template.score[p] >= ft_args.threshold

C11_Witness ==
    /\ FTDone
    /\ FTValid
    /\ ft_result.value # None
    /\ \A p \in FTAlignments : ft_args.template.score[p] <= ft_args.threshold

(* C12: a reported match is (rx + lx, ry + ly, template_width,             *)
(* template_height) for a best alignment (lx, ly) of the ROI: in frame     *)
(* coordinates the corner is a best-scoring alignment of the search area,  *)
(* the rectangle lies inside the ROI, and without a ROI the corner is the  *)
(* best alignment itself.                                                  *)
C12_CornerInFrameCoordinates ==
    (FTDone /\ FTValid /\ ft_result.value # None) =>
        LET v == ft_result.value
        IN  /\ FTBest(<<v[2], v[1]>>)
            /\ v[3] = ft_args.template.w
            /\ v[4] = ft_args.template.h
            /\ v[1] >= FTRoiX /\ v[1] + v[3] <= FTRoiX + SearchW
            /\ v[2] >= FTRoiY /\ v[2] + v[4] <= FTRoiY + SearchH

C12_Witness ==
    /\ FTDone
    /\ FTValid
    /\ ft_args.roi # None
    /\ ft_args.roi[1] > 0
    /\ ft_result.value # None
    /\ ft_result.value[1] = ft_args.roi[1]

(* The template is an exact crop of the frame at alignment p: its          *)
(* correlation there is the maximum attainable value.                      *)
ExactCropAt(p) ==
    /\ p \in DOMAIN ft_args.template.score
    /\ ft_args.template.score[p] = MaxScore

RowMajorBefore(p, q) == p[1] < q[1] \/ (p[1] = q[1] /\ p[2] < q[2])

PredicateOps ==
    {"line_is_color", "check_line_for_color", "check_region_for_color", "region_is_color"}

PXDone(op) == px_pc = "done" /\ px_args.op = op

PXPredicateDone == px_pc = "done" /\ px_args.op \in PredicateOps

(* The predicate has a frame to scan: the caller's, or a captured one. *)
PXHasFrame == px_args.screenshot_np # "capture_fails"

InFrame(c) == c[1] >= 0 /\ c[1] < FrameW /\ c[2] >= 0 /\ c[2] < FrameH

(* The pixel at (x, y) of the frame, stored [B, G, R], is within tol of    *)
(* the color (R, G, B) on each channel.                                    *)
PixelMatches(c, tol) ==
    LET stored == px_args.frame[<<c[2], c[1]>>]
    IN  /\ Abs(px_args.color[1] - stored[3]) < tol
        /\ Abs(px_args.color[2] - stored[2]) < tol
        /\ Abs(px_args.color[3] - stored[1]) < tol

PXLine == get_line_coordinates(px_args.at[1], px_args.at[2], px_args.at[3], px_args.at[4])

PXLineInFrame == InFrame(<<px_args.at[1], px_args.at[2]>>) /\ InFrame(<<px_args.at[3], px_args.at[4]>>)

(* Every pixel left <= x < left + width, top <= y < top + height. *)
PXRegionCells ==
    { c \in ((-1)..(2 * FrameW)) \X ((-1)..(2 * FrameH)) :
        /\ px_args.at[1] <= c[1] /\ c[1] < px_args.at[1] + px_args.at[3]
        /\ px_args.at[2] <= c[2] /\ c[2] < px_args.at[2] + px_args.at[4] }

(* The coordinates a call asks about. *)
PXRequested ==
    IF px_args.op \in {"line_is_color", "check_line_for_color"}
    THEN { PXLine[k] : k \in DOMAIN PXLine }
    ELSE PXRegionCells

SeqRange(q) == { q[k] : k \in DOMAIN q }

(* C14: a predicate call whose line or region has a coordinate outside the *)
(* frame fails with an error and returns no boolean.                       *)
C14_OutOfFrameRaises ==
    (PXPredicateDone /\ PXHasFrame /\ \E c \in PXRequested : ~InFrame(c))
        => px_result.raised

PXSampled ==
    IF px_args.op = "region_is_color"
    THEN { c \in PXRegionCells : (c[1] - px_args.at[1]) % 2 = 0 /\ (c[2] - px_args.at[2]) % 2 = 0 }
    ELSE PXRequested

AnswerUnder(tol) ==
    IF px_args.op \in {"line_is_color", "region_is_color"}
    THEN \A c \in PXSampled : PixelMatches(c, tol)
    ELSE \E c \in PXSampled : PixelMatches(c, tol)

PXInFrameCall ==
    PXPredicateDone /\ PXHasFrame /\ \A c \in PXRequested : InFrame(c)

ChannelDiffs == { Abs(px_args.pix1[c] - px_args.pix2[c]) : c \in 1..3 }

UpToFirst(q, P(_)) ==
    IF \E k \in DOMAIN q : P(q[k])
    THEN SubSeq(q, 1, CHOOSE k \in DOMAIN q : P(q[k]) /\ \A j \in 1..(k - 1) : ~P(q[j]))
    ELSE q

Mismatch35(c) == ~PixelMatches(c, 35)

Match35(c) == PixelMatches(c, 35)

(* C18: line_is_color is True iff every coordinate of the line holds a     *)
(* pixel that, reordered from BGR to RGB, is within tolerance of the       *)
(* color, and it reads no pixel after the first mismatch.                  *)
C18_LineAllMatch ==
    (PXDone("line_is_color") /\ PXHasFrame /\ PXLineInFrame) =>
        /\ ~px_result.raised
        /\ px_result.value = (\A c \in SeqRange(PXLine) : PixelMatches(c, 35))
        /\ px_result.examined = UpToFirst(PXLine, Mismatch35)

C18_Witness ==
    /\ PXDone("line_is_color") /\ PXHasFrame /\ PXLineInFrame
    /\ ~px_result.value
    /\ Len(px_result.examined) < Len(PXLine)
    /\ \E c \in SeqRange(PXLine) : PixelMatches(c, 35)

(* C19: check_line_for_color is True iff at least one coordinate of the    *)
(* line holds a matching pixel, and it reads no pixel after the first      *)
(* match.                                                                  *)
C19_LineAnyMatch ==
    (PXDone("check_line_for_color") /\ PXHasFrame /\ PXLineInFrame) =>
        /\ ~px_result.raised
        /\ px_result.value = (\E c \in SeqRange(PXLine) : PixelMatches(c, 35))
        /\ px_result.examined = UpToFirst(PXLine, Match35)

C19_Witness ==
    /\ PXDone("check_line_for_color") /\ PXHasFrame /\ PXLineInFrame
    /\ px_result.value
    /\ Len(px_result.examined) < Len(PXLine)
    /\ \E c \in SeqRange(PXLine) : ~PixelMatches(c, 35)

(* C20: check_region_for_color is True iff some pixel of the region        *)
(* matches, every pixel of the region being a candidate (step 1 on both    *)
(* axes); an empty region gives False.                                     *)
C20_RegionAnyMatch ==
    (PXDone("check_region_for_color") /\ PXHasFrame /\ \A c \in PXRegionCells : InFrame(c)) =>
        /\ ~px_result.raised
        /\ px_result.value = (\E c \in PXRegionCells : PixelMatches(c, 35))
        /\ ~px_result.value => SeqRange(px_result.examined) = PXRegionCells
        /\ PXRegionCells = {} => ~px_result.value

C20_Witness ==
    /\ PXDone("check_region_for_color") /\ PXHasFrame
    /\ \A c \in PXRegionCells : InFrame(c)
    /\ px_result.value
    /\ \A c \in PXRegionCells :
          PixelMatches(c, 35) => ((c[1] - px_args.at[1]) % 2 = 1 \/ (c[2] - px_args.at[2]) % 2 = 1)


(* The pixels of the region at even offsets from its top-left corner. *)
PXEvenCells ==
    { c \in PXRegionCells :
        (c[1] - px_args.at[1]) % 2 = 0 /\ (c[2] - px_args.at[2]) % 2 = 0 }

PXRegionInFrame == \A c \in PXRegionCells : InFrame(c)

FnDone(fn) == fn_pc = "done" /\ fn_args.fn = fn

(* C22: the list of get_line_coordinates starts with (x_1, y_1) and ends   *)
(* with (x_2, y_2); a line from a point to itself is that one point, and   *)
(* the line (0, 0)-(3, 0) is (0,0), (1,0), (2,0), (3,0).                   *)
C22_EndPointsIncluded ==
    FnDone("get_line_coordinates") =>
        /\ Len(fn_result) >= 1
        /\ fn_result[1] = <<fn_args.at[1], fn_args.at[2]>>
        /\ fn_result[Len(fn_result)] = <<fn_args.at[3], fn_args.at[4]>>
        /\ (fn_args.at[1] = fn_args.at[3] /\ fn_args.at[2] = fn_args.at[4])
              => fn_result = << <<fn_args.at[1], fn_args.at[2]>> >>
        /\ fn_args.at = <<0, 0, 3, 0>>
              => fn_result = << <<0, 0>>, <<1, 0>>, <<2, 0>>, <<3, 0>> >>

C22_Witness ==
    /\ FnDone("get_line_coordinates")
    /\ fn_args.at = <<0, 0, 3, 0>>
    /\ Len(fn_result) = 4

(* C23: consecutive points of the line differ by at most 1 on each axis    *)
(* and are not the same point, no step moves away from the end point on    *)
(* either axis, and no point occurs twice.                                 *)
C23_EightConnected ==
    FnDone("get_line_coordinates") =>
        /\ \A k \in 1..(Len(fn_result) - 1) :
              /\ Abs(fn_result[k + 1][1] - fn_result[k][1]) <= 1
              /\ Abs(fn_result[k + 1][2] - fn_result[k][2]) <= 1
              /\ fn_result[k + 1] # fn_result[k]
              /\ Abs(fn_args.at[3] - fn_result[k + 1][1]) <= Abs(fn_args.at[3] - fn_result[k][1])
              /\ Abs(fn_args.at[4] - fn_result[k + 1][2]) <= Abs(fn_args.at[4] - fn_result[k][2])
        /\ \A j, k \in DOMAIN fn_result : j # k => fn_result[j] # fn_result[k]

C23_Witness ==
    /\ FnDone("get_line_coordinates")
    /\ Len(fn_result) >= 4
    /\ \E k \in 1..(Len(fn_result) - 1) :
          /\ fn_result[k + 1][1] # fn_result[k][1]
          /\ fn_result[k + 1][2] # fn_result[k][2]
    /\ \E k \in 1..(Len(fn_result) - 1) : fn_result[k + 1][2] = fn_result[k][2]

(* The box test of the greedy reference, written out on the coordinates. *)
InBox(a, b, d) ==
    LET dx == IF a[1] >= b[1] THEN a[1] - b[1] ELSE b[1] - a[1]
        dy == IF a[2] >= b[2] THEN a[2] - b[2] ELSE b[2] - a[2]
    IN  dx < d /\ dy < d

(* The positions the greedy reference keeps: a position is kept iff no     *)
(* kept position before it holds a coordinate in the box.                  *)
GreedyKept(L, d) ==
    CHOOSE K \in SUBSET DOMAIN L :
        \A k \in DOMAIN L :
            k \in K <=> ~\E j \in K : j < k /\ InBox(L[j], L[k], d)

(* The elements of L at the positions K, in the order of L. *)
RECURSIVE Pick(_, _, _)
Pick(L, K, k) ==
    IF k > Len(L) THEN <<>>
    ELSE IF k \in K THEN <<L[k]>> \o Pick(L, K, k + 1)
    ELSE Pick(L, K, k + 1)

C25_Idempotent ==
    FnDone("condense_coordinates") =>
        condense_coordinates(fn_result, fn_args.distance_threshold) = fn_result

C25_Witness ==
    /\ FnDone("condense_coordinates")
    /\ Len(fn_result) >= 2
    /\ Len(fn_result) < Len(fn_args.coords)
    /\ condense_coordinates(fn_result, fn_args.distance_threshold) = fn_result

(* C26: on the 100x100 frame with the 20x20 patch at (40, 40),             *)
(* check_region_for_color on region (30, 30, 40, 40) with the patch color  *)
(* is True, and region_is_color on the same region with the background     *)
(* color is False.                                                         *)
C26_PatchScenario ==
    (px_pc = "done" /\ PXHasFrame /\ px_args.frame = SceneFrame
                    /\ px_args.at = <<30, 30, 40, 40>>) =>
        /\ (px_args.op = "check_region_for_color" /\ px_args.color = <<200, 200, 200>>)
              => (~px_result.raised /\ px_result.value)
        /\ (px_args.op = "region_is_color" /\ px_args.color = <<10, 10, 10>>)
              => (~px_result.raised /\ ~px_result.value)

C26_Witness ==
    /\ px_pc = "done" /\ px_args.screenshot_np = "given"
    /\ px_args.frame = SceneFrame
    /\ px_args.at = <<30, 30, 40, 40>>
    /\ px_args.op = "check_region_for_color"
    /\ px_args.color = <<200, 200, 200>>
    /\ px_result.value
    /\ Len(px_result.examined) > 40
    /\ px_result.examined[Len(px_result.examined)] = <<40, 40>>


StepOrder == <<"start_memu", "wait_for_boot", "launch_evertale">>

StepEvents ==
    { k \in DOMAIN main_log : \E i \in 1..3 : main_log[k][1] = StepOrder[i] }

(* launcher.run() has returned to main. *)
RunReturned == main_pc \in {"run_returned", "automation", "finishing", "finished"}

(* Step i of run was called and returned True. *)
StepReturnedTrue(i) ==
    Len(main_log) >= i + 1 /\ main_log[i + 1] = <<StepOrder[i], "True">>

(* C28: run calls start_memu, wait_for_boot, launch_evertale in that       *)
(* order, a step only after every earlier one returned True, and returns   *)
(* True iff all three returned True.                                       *)
C28_StepsInOrder ==
    /\ \A k \in StepEvents :
          /\ k \in 2..4
          /\ main_log[k][1] = StepOrder[k - 1]
          /\ \A i \in 1..(k - 2) : StepReturnedTrue(i)
    /\ RunReturned => (game_launched <=> \A i \in 1..3 : StepReturnedTrue(i))

C28_Witness ==
    /\ RunReturned
    /\ ~game_launched
    /\ Cardinality(StepEvents) = 2
    /\ main_log[3] = <<"wait_for_boot", "False">>

AutomationEvents ==
    { k \in DOMAIN main_log :
        main_log[k][1] \in {"getting_main_menue.run", "tap", "swipe"} }

(* C29: the automation script, and so every tap and swipe, runs only after *)
(* launcher.run returned True, and main reaches its "finished" step in     *)
(* every run.                                                              *)
C29_AutomationAfterLaunchAndFinished ==
    /\ [](AutomationEvents # {} => (RunReturned /\ game_launched))
    /\ <>(main_pc = "finished")

Shots == { k \in DOMAIN ck_log : ck_log[k][1] = "take_screenshot" }

Taps == { k \in DOMAIN ck_log : ck_log[k][1] = "tap" }

(* C30: click_image makes at most max_attempts attempts with at most one   *)
(* capture each; every tap is at a location just found; it returns True    *)
(* exactly when a tap exited with code 0, that tap being its last action,  *)
(* and returns False only when every attempt is used up.                   *)
C30_BoundedAttempts ==
    /\ ck_attempt <= ck_args.max_attempts
    /\ Cardinality(Shots) <= ck_attempt
    /\ \A k \in Taps :
          /\ k > 1
          /\ ck_log[k - 1] = <<"find_references", "found">>
          /\ ck_log[k] = <<"tap", "exit_0">>
                => (k = Len(ck_log) /\ ck_pc = "returned" /\ ck_result)
    /\ ck_pc = "returned" =>
          /\ ck_result <=> (ck_log # <<>> /\ ck_log[Len(ck_log)] = <<"tap", "exit_0">>)
          /\ ~ck_result =>
                (ck_attempt = ck_args.max_attempts /\ Cardinality(Shots) = ck_attempt)

C30_Witness ==
    /\ ck_pc = "returned"
    /\ ck_result
    /\ ck_attempt = 3
    /\ \E k \in Shots : ck_log[k] = <<"take_screenshot", "failed">>
    /\ \E k \in Taps : ck_log[k] = <<"tap", "exit_1">>

(* C31: wait_for_checkpoint and wait_for_any_checkpoint return True only   *)
(* from an iteration whose loop test was made before the timeout elapsed   *)
(* and in which a capture succeeded and the search found a checkpoint; a   *)
(* failed capture is followed by the sleep and never by a search; False is *)
(* returned only with the timeout reached and nothing found.               *)
C31_TrueOnlyWhenFound ==
    LET n == Len(wt_log)
    IN  /\ wt_result = "True" =>
              /\ n >= 3
              /\ wt_log[n] = <<"find_references", "found">>
              /\ wt_log[n - 1] = <<"take_screenshot", "ok">>
              /\ wt_log[n - 2] = <<"while", "before_timeout">>
        /\ \A k \in 1..n :
              /\ wt_log[k] = <<"take_screenshot", "failed">> =>
                    (IF k < n THEN wt_log[k + 1] = <<"sleep", "check_interval">>
                              ELSE wt_pc = "sleep")
              /\ wt_log[k][1] = "find_references" =>
                    (k > 1 /\ wt_log[k - 1] = <<"take_screenshot", "ok">>)
              /\ wt_log[k] = <<"sleep", "check_interval">> =>
                    (IF k < n THEN wt_log[k + 1][1] = "while" ELSE wt_pc = "while")
        /\ wt_result = "False" =>
              /\ wt_elapsed >= wt_args.timeout
              /\ \A k \in 1..n : wt_log[k] # <<"find_references", "found">>

C31_Witness ==
    /\ wt_result = "True"
    /\ wt_args.which = "wait_for_any_checkpoint"
    /\ \E k \in DOMAIN wt_log : wt_log[k] = <<"take_screenshot", "failed">>
    /\ \E k \in DOMAIN wt_log : wt_log[k] = <<"find_references", "not_found">>

(* A step of take_screenshot that failed: a command that exited non-zero   *)
(* or raised, an unreadable file, a file operation that raised.            *)
ShotFailures ==
    { k \in DOMAIN ts_log :
        \/ ts_log[k][1] \in {"screencap", "pull"} /\ ts_log[k][2] # "exit_0"
        \/ ts_log[k][1] = "imread" /\ ts_log[k][2] # "array"
        \/ ts_log[k][2] = "OSError"
        \/ ts_log[k][1] = "rm" /\ ts_log[k][2] \notin {"exit_0", "exit_1"} }

(* C32: take_screenshot never lets an exception out; a failed capture,     *)
(* pull or decode makes it return (None, None); otherwise it returns the   *)
(* image, with path None exactly when save_to_disk is False; the pull is   *)
(* issued only after the capture command exited with code 0.               *)
C32_NeverPropagates ==
    /\ ts_pc # "raised"
    /\ ShotFailures # {} => (ts_pc = "returned" /\ ts_result = ShotPair("None", "None"))
    /\ (ts_pc = "returned" /\ ShotFailures = {}) =>
          /\ ts_result.image = "array"
          /\ ts_result.path = "None" <=> ~ts_args.save_to_disk
          /\ \E k \in DOMAIN ts_log : ts_log[k] = <<"imread", "array">>
    /\ \A k \in DOMAIN ts_log :
          ts_log[k][1] = "pull" => (k > 1 /\ ts_log[k - 1] = <<"screencap", "exit_0">>)

C32_Witness ==
    /\ ts_pc = "returned"
    /\ ts_result = ShotPair("shot.png", "array")
    /\ ts_args.filename = "shot"

(* Places of the current iteration's log where the home page was found in  *)
(* a screenshot captured before by the same function.                      *)
HomeSeen ==
    { k \in DOMAIN gm_log :
        /\ gm_log[k][2] = "find_template"
        /\ gm_log[k][3] = "home_page"
        /\ gm_log[k][4] = "found"
        /\ \E c \in 1..(k - 1) : gm_log[c] = <<gm_log[k][1], "take_screenshot", "", "ok">> }

(* C33: run returns without the overall timeout only after the home page   *)
(* was found in a captured screenshot, by the main loop or by the boot or  *)
(* sliding handler; the boot handler finding the sliding page hands back   *)
(* to the loop test of the main loop and does not end the run.             *)
C33_ReturnsOnlyAtHome ==
    /\ gm_result = "completed" => (gm_pc = "returned" /\ HomeSeen # {})
    /\ \A k \in DOMAIN gm_log :
          gm_log[k] = <<"boot", "find_template", "sliding_page", "found">> =>
             /\ k + 1 = Len(gm_log)
             /\ gm_log[k + 1] = <<"run", "handler", "boot_page", "False">>
             /\ gm_pc = "while"
             /\ gm_result = "none"

C33_Witness ==
    /\ gm_result = "completed"
    /\ \E k \in HomeSeen : gm_log[k][1] = "sliding"
    /\ gm_elapsed >= 1

(* The tests the main loop made in the current iteration. *)
RunTests == { k \in DOMAIN gm_log : gm_log[k][1] = "run" /\ gm_log[k][2] = "find_template" }

RunMatches == { k \in RunTests : gm_log[k][4] = "found" }

(* C34: in one iteration of the main loop the tests are made on its one    *)
(* screenshot in the order boot page, sliding page, home page, and stop at *)
(* the first match; only the handler of that match runs; without a capture *)
(* or without a match no handler runs and no tap or swipe is made.         *)
C34_OneHandlerPerIteration ==
    LET order == <<"boot_page", "sliding_page", "home_page">>
    IN  /\ Cardinality({ k \in DOMAIN gm_log : gm_log[k][1] = "run"
                                               /\ gm_log[k][2] = "take_screenshot" }) <= 1
        /\ \A k \in RunTests :
              /\ gm_log[2] = <<"run", "take_screenshot", "", "ok">>
              /\ k - 2 \in 1..3
              /\ gm_log[k][3] = order[k - 2]
              /\ \A e \in RunTests : e < k => gm_log[e][4] = "not_found"
        /\ Cardinality(RunMatches) <= 1
        /\ \A k \in DOMAIN gm_log :
              /\ gm_log[k][1] \in {"boot", "sliding"} =>
                    \E t \in RunMatches : t < k /\ gm_log[t][3] = gm_log[k][1] \o "_page"
              /\ gm_log[k][2] = "handler" =>
                    \E t \in RunMatches : t < k /\ gm_log[t][3] = gm_log[k][3]
        /\ gm_pc \in {"boot_loop", "boot_shot", "sliding_swipe", "sliding_loop",
                       "sliding_shot", "home"} => RunMatches # {}

C34_Witness ==
    /\ Len(gm_log) >= 6
    /\ gm_log[Len(gm_log)] = <<"sliding", "tap", "", "">>
    /\ gm_log[3] = <<"run", "find_template", "boot_page", "not_found">>
    /\ gm_log[4] = <<"run", "find_template", "sliding_page", "found">>

LaunchCommands == { k \in DOMAIN le_log : le_log[k].cmd \in {"monkey", "am_start", "intent"} }

(* C35: launch_evertale returns True only right after is_evertale_running  *)
(* returned True in the polling that followed a launch command which       *)
(* exited with code 0; when is_evertale_installed returns False it returns *)
(* False having issued no key event and no launch command.                 *)
C35_TrueOnlyWhenRunning ==
    /\ le_result = "True" =>
          LET last == le_log[Len(le_log)]
          IN  /\ Len(le_log) \in LaunchCommands
              /\ last.out = "exit_0"
              /\ last.polls >= 1
              /\ last.running
    /\ (le_log # <<>> /\ le_log[1].out = "False") =>
          /\ Len(le_log) = 1
          /\ le_pc = "returned"
          /\ le_result = "False"
    /\ \A k \in DOMAIN le_log : le_log[k].polls > 0 => le_log[k].out = "exit_0"

C35_Witness ==
    /\ le_result = "True"
    /\ le_log[Len(le_log)].cmd = "am_start"
    /\ le_log[Len(le_log)].activity = 2
    /\ le_log[Len(le_log)].polls = 3

(* Position of a launch command in the fixed order: monkey, the activities *)
(* in list order, the intent.                                              *)
MethodRank(entry) ==
    CASE entry.cmd = "monkey" -> 0
      [] entry.cmd = "am_start" -> entry.activity
      [] entry.cmd = "intent" -> 6

(* The command exited non-zero, or exited with code 0 and none of its 45,  *)
(* 15 or 15 polls saw the game running.                                    *)
EndedUnconfirmed(entry) ==
    \/ entry.out = "exit_1"
    \/ /\ entry.out = "exit_0"
       /\ ~entry.running
       /\ entry.polls = (IF entry.cmd = "monkey" THEN 45 ELSE 15)

MethodsInOrder ==
    /\ \A k \in LaunchCommands :
          LET earlier == { e \in LaunchCommands : e < k }
          IN  /\ le_log[k].polls <= (IF le_log[k].cmd = "monkey" THEN 45 ELSE 15)
              /\ earlier = {} => le_log[k].cmd = "monkey"
              /\ \A e \in earlier :
                    /\ EndedUnconfirmed(le_log[e])
                    /\ MethodRank(le_log[e]) < MethodRank(le_log[k])
              /\ le_log[k].cmd = "am_start" =>
                    \E e \in earlier : MethodRank(le_log[e]) = le_log[k].activity - 1
              /\ le_log[k].cmd = "intent" =>
                    \/ \E e \in earlier : le_log[e].cmd = "am_start" /\ le_log[e].activity = 5
                    \/ \E g \in 1..(k - 1) :
                          le_log[g] = LaunchEntry("get_evertale_main_activity", 0, "None")
    /\ \A k \in DOMAIN le_log :
          le_log[k].cmd = "diagnose_launch_failure" =>
             \E e \in LaunchCommands : le_log[e].cmd = "intent" /\ EndedUnconfirmed(le_log[e])
    /\ le_pc = "returned" =>
          \A e \in LaunchCommands :
             (le_log[e].cmd = "intent" /\ EndedUnconfirmed(le_log[e])) =>
                \E k \in DOMAIN le_log : le_log[k].cmd = "diagnose_launch_failure"

(* C36: the launch methods are tried in the order monkey, am start for     *)
(* each activity in list order, intent; a method is tried only when every  *)
(* earlier one exited non-zero or went unconfirmed through all of its 45,  *)
(* 15 or 15 polls; launch_evertale terminates; diagnose_launch_failure     *)
(* runs exactly when the last method, too, ended without confirmation.     *)
C36_MethodsInOrderAndTerminates == []MethodsInOrder /\ <>(le_pc = "returned")

C36_Witness ==
    /\ le_pc = "returned"
    /\ Cardinality(LaunchCommands) = 7
    /\ le_log[Len(le_log)].cmd = "diagnose_launch_failure"
    /\ \E k \in LaunchCommands : le_log[k].cmd = "monkey" /\ le_log[k].polls = 45
    /\ \E k \in LaunchCommands : le_log[k].cmd = "intent" /\ le_log[k].polls = 15

AdbSeen == { k \in DOMAIN wb_log : wb_log[k] = <<"check_adb_connection", "True">> }

AdsClosed == { k \in DOMAIN wb_log : wb_log[k][1] = "close_ads_and_dialogs" }

(* C37: wait_for_boot returns True only after check_adb_connection         *)
(* returned True and a later boot query exited with code 0 and reported 1; *)
(* no boot query is made before an ADB connection was seen;                *)
(* close_ads_and_dialogs is called once, on the success path only, and     *)
(* diagnose_boot_failure on the timeout path only.                         *)
C37_BootedAfterAdb ==
    LET n == Len(wb_log)
    IN  /\ wb_result = "True" =>
              /\ n >= 3
              /\ wb_log[n - 1] = <<"getprop", "exit_0_says_1">>
              /\ \E a \in AdbSeen : a < n - 1
              /\ Cardinality(AdsClosed) = 1
        /\ \A k \in 1..n :
              /\ wb_log[k][1] = "getprop" => \E a \in AdbSeen : a < k
              /\ k \in AdsClosed =>
                    /\ k = n
                    /\ wb_log[k - 1] = <<"getprop", "exit_0_says_1">>
                    /\ wb_result = "True"
              /\ wb_log[k][1] = "diagnose_boot_failure" =>
                    /\ k = n
                    /\ wb_log[k - 1] = <<"while", "timeout_reached">>
                    /\ AdsClosed = {}
                    /\ wb_result # "True"
        /\ wb_result = "False" => wb_log[n] = <<"diagnose_boot_failure", "returned">>

C37_Witness ==
    /\ wb_result = "True"
    /\ \E k \in DOMAIN wb_log : wb_log[k] = <<"check_adb_connection", "False">>
    /\ \E k \in DOMAIN wb_log : wb_log[k] = <<"getprop", "TimeoutExpired">>

(* C38: when is_memu_instance_running returns True, start_memu returns     *)
(* True having killed no process and started no emulator; processes are    *)
(* killed and start commands issued only after it returned False; the      *)
(* direct MEmu.exe launch is made only when memuc is absent or its start   *)
(* command exited non-zero.                                                *)
C38_StartsOnlyWhenNotRunning ==
    /\ (sm_log # <<>> /\ sm_log[1] = <<"is_memu_instance_running", "True">>) =>
          /\ Len(sm_log) = 1
          /\ sm_killed = {}
          /\ sm_pc = "returned"
          /\ sm_result = "True"
    /\ sm_killed # {} =>
          \E k \in DOMAIN sm_log : sm_log[k][1] = "kill_existing_memu_processes"
    /\ \A k \in DOMAIN sm_log :
          /\ sm_log[k][1] \in {"kill_existing_memu_processes", "memuc_start", "Popen"} =>
                (k > 1 /\ sm_log[1] = <<"is_memu_instance_running", "False">>)
          /\ sm_log[k][1] = "Popen" =>
                \/ ~sm_args.console_exists
                \/ sm_log[k - 1] = <<"memuc_start", "exit_1">>
          /\ sm_log[k][1] = "memuc_start" => sm_args.console_exists

C38_Witness ==
    /\ sm_result = "True"
    /\ sm_killed = {"memu.exe", "memuheadless.exe"}
    /\ \E k \in DOMAIN sm_log : sm_log[k] = <<"memuc_start", "exit_1">>
    /\ sm_log[Len(sm_log)] = <<"Popen", "running">>

(* max(|x_2 - x_1|, |y_2 - y_1|) of the call's arguments. *)
LineSpan ==
    LET dx == Abs(ln_args[3] - ln_args[1])
        dy == Abs(ln_args[4] - ln_args[2])
    IN  IF dx > dy THEN dx ELSE dy

LineLength ==
    /\ Len(ln_coordinates) <= LineSpan + 1
    /\ ln_pc = "while" => Len(ln_coordinates) <= LineSpan
    /\ ln_pc = "returned" =>
          /\ Len(ln_coordinates) = LineSpan + 1
          /\ ln_coordinates[Len(ln_coordinates)] = <<ln_args[3], ln_args[4]>>
          /\ ln_coordinates = LineOf(ln_args)

(* C39: get_line_coordinates returns for all end points; its loop makes    *)
(* exactly max(|x_2 - x_1|, |y_2 - y_1|) iterations before it reaches      *)
(* (x_2, y_2), and the list returned has one more point than that.         *)
C39_TerminatesWithSpanPlusOne == []LineLength /\ <>(ln_pc = "returned")

C39_Witness ==
    /\ ln_pc = "returned"
    /\ ln_args = <<3, 0, -1, 2>>
    /\ Len(ln_coordinates) = 5

====
